---- MODULE Spec2Model ----
(***************************************************************************)
(* AmbuSched: assignment of medical-transport trips to vehicles.          *)
(*                                                                         *)
(* The module models                                                       *)
(*   - the scoring model and the single-trip resolver                      *)
(*     (calculateOptimizationScore, findBestVehicleAssignment),            *)
(*   - the conflict resolver and the two-pass batch optimizer              *)
(*     (resolveConflicts, optimizeMultipleTrips and its apply* steps),     *)
(*   - the return-trip generator (generateReturnCourses),                  *)
(*   - the provider-fallback dispatcher (smartOptimize).                   *)
(*                                                                         *)
(* Times of day "HH:MM" are pairs <<h, m>>; distances are metres.          *)
(***************************************************************************)
EXTENDS Integers, Sequences, FiniteSets, TLC

VARIABLES
    trips,                 \* optimizeMultipleTrips: the trips argument
    vehicles,              \* optimizeMultipleTrips: the vehicles argument
    sortedTrips,           \* trips sorted by priority, then time
    pos,                   \* index of the next trip of the running loop
    vehicleAssignments,    \* working copy: vehicle id -> list of trips
    unresolvableConflicts, \* trips deferred by the first pass
    results,               \* result entries pushed so far
    assignment,            \* last value returned by findBestVehicleAssignment
    attempts,              \* history: what the second pass generated and tried
    pc,                    \* position in the running function
    courses,               \* generateReturnCourses: the input list
    returnCourses,         \* generateReturnCourses: the generated returns
    expanded,              \* processCoursesWithReturns: courses ++ returns
    secondReturns,         \* generateReturnCourses applied to expanded
    osrmUp,                \* the Router answered the latest request
    vroomUp,               \* the Solver answered the latest request
    serviceStatus,         \* smartOptimize: probed availability
    tier,                  \* smartOptimize: the optimizers being run, caller first
    caught,                \* smartOptimize: the callers inside their catch block
    smartResult,           \* smartOptimize: the value or error handed to the caller
    coordinates,           \* routing client: the coordinates argument
    serverUrls,            \* solver client: the server URLs still to be tried
    response,              \* routing and solver clients: what the call produced
    suspended,             \* a second run of optimizeMultipleTrips, awaiting
    isOptimizing,          \* App: the isOptimizing state
    optimizationResult,    \* App: the optimizationResult state
    timeWindowConfig,      \* App: the timeWindowConfig state
    inFlight,              \* App: the calls of handleOptimization awaiting
    started,               \* App: the calls of handleOptimization made so far
    totals                 \* fallbackVRPSolver: totalDistance and totalDuration
                           \* of every entry of its vehicleAssignments

vars == <<trips, vehicles, sortedTrips, pos, vehicleAssignments,
          unresolvableConflicts, results, assignment, attempts, pc,
          courses, returnCourses, expanded, secondReturns,
          osrmUp, vroomUp, serviceStatus, tier, caught, smartResult,
          coordinates, serverUrls, response, suspended,
          isOptimizing, optimizationResult, timeWindowConfig, inFlight, started,
          totals>>

batchVars == <<trips, vehicles, sortedTrips, pos, vehicleAssignments,
               unresolvableConflicts, results, assignment, attempts>>

returnVars == <<courses, returnCourses, expanded, secondReturns>>

smartVars == <<osrmUp, vroomUp, serviceStatus, tier, caught, smartResult>>

appVars == <<isOptimizing, optimizationResult, timeWindowConfig, inFlight, started>>

callVars == <<coordinates, serverUrls, response, suspended, appVars, totals>>

(***************************************************************************)
(* Bounds of the model                                                     *)
(***************************************************************************)
MaxTrips == 2

MaxVehicles == 2

MaxCourses == 2
\* trips handed to the local solver; a route is improved from three trips on
MaxFallbackTrips == 3

(***************************************************************************)
(* Values standing for JavaScript undefined / null                         *)
(***************************************************************************)
Undefined == "undefined"

\* an absent time string (undefined or null)
NoTime == <<>>

(***************************************************************************)
(* Generic sequence helpers                                                *)
(***************************************************************************)
Abs(x) == IF x < 0 THEN -x ELSE x

Max2(a, b) == IF a >= b THEN a ELSE b

\* Array.prototype.slice(from, to) with 0-based bounds
Slice(s, from, to) ==
    IF from >= Len(s) THEN <<>>
    ELSE SubSeq(s, from + 1, IF to < Len(s) THEN to ELSE Len(s))

\* the sequence s with all its elements computed
Listed(s) == s \o <<>>

\* Math.round of the non-negative rational n / d
RoundDiv(n, d) == (2 * n + d) \div (2 * d)

(***************************************************************************)
(* Times of day                                                            *)
(***************************************************************************)
DefaultTime == <<9, 0>>

\* convertTimeToMinutes: "HH:MM" -> minutes since midnight, 540 when absent
convertTimeToMinutes(timeStr) ==
    IF timeStr = NoTime THEN 540
    ELSE timeStr[1] * 60 + timeStr[2]

\* trip.pickupTime || trip.time || '09:00'
TripTime(trip) ==
    IF trip.pickupTime # NoTime THEN trip.pickupTime
    ELSE IF trip.time # NoTime THEN trip.time
    ELSE DefaultTime

\* String.prototype.localeCompare on two zero-padded "HH:MM" strings
localeCompare(a, b) ==
    IF a[1] # b[1] THEN (IF a[1] < b[1] THEN -1 ELSE 1)
    ELSE IF a[2] # b[2] THEN (IF a[2] < b[2] THEN -1 ELSE 1)
    ELSE 0

(***************************************************************************)
(* Geocoding and distances                                                 *)
(***************************************************************************)
\* geocodeAddress: the first key of mockCoordinates contained in the
\* lower-cased address, else the default entry (Hyères)
geocodeAddress(address) ==
    CASE address = "Hyères" -> "hyères"
      [] address = "CHU Toulon" -> "toulon"
      [] address = "hyères" -> "hyères"
      [] OTHER -> "default"

\* calculateDistance (Haversine) on the mock coordinates, in metres
calculateDistance(point1, point2) ==
    LET p == IF point1 = "default" THEN "hyères" ELSE point1
        q == IF point2 = "default" THEN "hyères" ELSE point2
    IN  IF p = q THEN 0 ELSE 16270

(***************************************************************************)
(* Scoring model                                                           *)
(***************************************************************************)
getVehicleTypeScore(requiredType, vehicleType) ==
    IF requiredType = vehicleType THEN 100
    ELSE CASE requiredType = "Ambulance" /\ vehicleType = "VSL" -> 60
           [] requiredType = "Ambulance" /\ vehicleType = "Taxi" -> 20
           [] requiredType = "VSL" /\ vehicleType = "Ambulance" -> 90
           [] requiredType = "VSL" /\ vehicleType = "Taxi" -> 70
           [] requiredType = "Taxi" /\ vehicleType = "Ambulance" -> 85
           [] requiredType = "Taxi" /\ vehicleType = "VSL" -> 80
           [] OTHER -> 30

getPriorityScore(priority) ==
    CASE priority = "urgent" -> 100
      [] priority = "high" -> 85
      [] priority = "normal" -> 60
      [] priority = "low" -> 40
      [] OTHER -> 60

calculateDistanceScore(totalDistance) ==
    IF totalDistance <= 10000 THEN 100
    ELSE IF totalDistance <= 20000 THEN 80
    ELSE IF totalDistance <= 40000 THEN 60
    ELSE IF totalDistance <= 60000 THEN 40
    ELSE 20

\* the existing trips less than 30 minutes away from the trip
NearTrips(trip, existingTrips) ==
    SelectSeq(existingTrips,
              LAMBDA e : Abs(convertTimeToMinutes(TripTime(trip))
                             - convertTimeToMinutes(TripTime(e))) < 30)

calculateTimeSlotScore(trip, vehicle, existingTrips) ==
    LET n == Len(NearTrips(trip, existingTrips))
    IN  IF n = 0 THEN 100 ELSE IF n = 1 THEN 60 ELSE IF n = 2 THEN 30 ELSE 10

\* mutation: no conflict is ever detected
detectConflictsNone(trip, existingTrips) == <<>>

detectConflicts(trip, existingTrips) ==
    LET near == NearTrips(trip, existingTrips)
    IN  Listed([i \in 1..Len(near) |->
            LET timeDiff == Abs(convertTimeToMinutes(TripTime(trip))
                                - convertTimeToMinutes(TripTime(near[i])))
            IN  [type |-> "time_overlap",
                 conflictingTrip |-> near[i],
                 timeDifference |-> timeDiff,
                 severity |-> IF timeDiff < 15 THEN "high" ELSE "medium"]])

\* the catch branch of calculateOptimizationScore: details holds only the
\* error, so details.conflicts is undefined (see ConflictsUndefined)
ScoreFailure ==
    [score |-> 0,
     details |-> [error |-> TRUE, conflicts |-> <<>>, totalDistance |-> 0,
                  vehicleTypeScore |-> 0, timeSlotScore |-> 0,
                  distanceScore |-> 0, priorityScore |-> 0]]

\* mutation: only a missing destination makes the geocoding throw
GeocodeThrowsDestinationOnly(trip) == trip.destination = Undefined

\* geocodeAddress(undefined) throws inside the try block
GeocodeThrows(trip) == trip.pickup = Undefined \/ trip.destination = Undefined

\* mutation: the four component scores are added without their weights
calculateOptimizationScoreUnweighted(trip, vehicle, existingTrips) ==
    IF GeocodeThrows(trip) THEN ScoreFailure
    ELSE
    LET pickupCoords == geocodeAddress(trip.pickup)
        destinationCoords == geocodeAddress(trip.destination)
        vehicleCoords == geocodeAddress(IF vehicle.currentLocation = Undefined
                                        THEN "hyères" ELSE vehicle.currentLocation)
        distanceToPickup == calculateDistance(vehicleCoords, pickupCoords)
        tripDistance == calculateDistance(pickupCoords, destinationCoords)
        totalDistance == distanceToPickup + tripDistance
        vehicleTypeScore == getVehicleTypeScore(trip.vehicleType, vehicle.type)
        timeSlotScore == calculateTimeSlotScore(trip, vehicle, existingTrips)
        distanceScore == calculateDistanceScore(totalDistance)
        priorityScore == getPriorityScore(trip.priority)
    IN  [score |-> vehicleTypeScore + timeSlotScore + distanceScore + priorityScore,
         details |-> [error |-> FALSE,
                      conflicts |-> detectConflicts(trip, existingTrips),
                      totalDistance |-> totalDistance,
                      vehicleTypeScore |-> vehicleTypeScore,
                      timeSlotScore |-> timeSlotScore,
                      distanceScore |-> distanceScore,
                      priorityScore |-> priorityScore]]

calculateOptimizationScore(trip, vehicle, existingTrips) ==
    IF GeocodeThrows(trip) THEN ScoreFailure
    ELSE
    LET pickupCoords == geocodeAddress(trip.pickup)
        destinationCoords == geocodeAddress(trip.destination)
        vehicleCoords == geocodeAddress(IF vehicle.currentLocation = Undefined
                                        THEN "hyères" ELSE vehicle.currentLocation)
        distanceToPickup == calculateDistance(vehicleCoords, pickupCoords)
        tripDistance == calculateDistance(pickupCoords, destinationCoords)
        totalDistance == distanceToPickup + tripDistance
        vehicleTypeScore == getVehicleTypeScore(trip.vehicleType, vehicle.type)
        timeSlotScore == calculateTimeSlotScore(trip, vehicle, existingTrips)
        distanceScore == calculateDistanceScore(totalDistance)
        priorityScore == getPriorityScore(trip.priority)
    IN  [score |-> RoundDiv(30 * vehicleTypeScore + 25 * timeSlotScore
                            + 25 * distanceScore + 20 * priorityScore, 100),
         details |-> [error |-> FALSE,
                      conflicts |-> detectConflicts(trip, existingTrips),
                      totalDistance |-> totalDistance,
                      vehicleTypeScore |-> vehicleTypeScore,
                      timeSlotScore |-> timeSlotScore,
                      distanceScore |-> distanceScore,
                      priorityScore |-> priorityScore]]

\* crossTypeCompatibility of calculateEnhancedCompatibilityScore, in percent
crossTypeCompatibility(requiredType, vehicleType) ==
    CASE requiredType = "Ambulance" /\ vehicleType = "VSL" -> 80
      [] requiredType = "Ambulance" /\ vehicleType = "Taxi" -> 40
      [] requiredType = "VSL" /\ vehicleType = "Ambulance" -> 90
      [] requiredType = "VSL" /\ vehicleType = "Taxi" -> 70
      [] requiredType = "Taxi" /\ vehicleType = "Ambulance" -> 60
      [] requiredType = "Taxi" /\ vehicleType = "VSL" -> 80
      [] OTHER -> 30

\* the double products 45 * 0.7 and 85 * 0.7 are 31.499999999999996 and
\* 59.49999999999999: Math.round takes them down, unless a later addition
\* or product absorbs the error; every other case rounds as the exact value
RoundsBelowHalf(trip, vehicle, baseScore) ==
    /\ trip.vehicleType = "VSL" /\ vehicle.type = "Taxi"
    /\ baseScore \in {45, 85}
    /\ trip.priority \notin {"urgent", "high"}
    /\ vehicle.status # "busy"

\* calculateEnhancedCompatibilityScore, computed in thousandths
calculateEnhancedCompatibilityScore(trip, vehicle, baseScore) ==
    LET s0 == baseScore * 1000
        s1 == IF trip.vehicleType = vehicle.type THEN s0 + 10000 ELSE s0
        s2 == IF trip.vehicleType # vehicle.type
              THEN Max2((s1 * crossTypeCompatibility(trip.vehicleType, vehicle.type))
                            \div 100,
                        20000)
              ELSE s1
        s3 == IF trip.priority = "urgent" THEN s2 + 15000
              ELSE IF trip.priority = "high" THEN s2 + 8000
              ELSE s2
        s4 == IF vehicle.status = "busy" THEN Max2((s3 * 8) \div 10, 25000) ELSE s3
        s5 == IF vehicle.status = "available" THEN Max2(s4, 15000) ELSE s4
    IN  IF RoundsBelowHalf(trip, vehicle, baseScore)
        THEN RoundDiv(s5, 1000) - 1
        ELSE RoundDiv(s5, 1000)

\* optimization.details.conflicts is undefined: reading its length throws
ConflictsUndefined(optimization) == optimization.details.error

(***************************************************************************)
(* Array.prototype.sort with comparator Before(a, b) <=> comparefn(a, b) < 0 *)
(* The sort is stable: an element precedes another one when the comparator *)
(* puts it before, or when the comparator orders neither and it came first *)
(***************************************************************************)
\* sort(comparefn).slice(0, k): the first k elements of the sorted array,
\* each selected as the element that precedes all the remaining ones
SortedPrefix(s, Before(_, _), k) ==
    LET n == Len(s)
        m == IF k < n THEN k ELSE n
        elems == Listed(s)
        Precedes(i, j) ==
            IF i < j THEN ~Before(elems[j], elems[i]) ELSE Before(elems[i], elems[j])
        First(rest) ==
            CHOOSE i \in rest : \A j \in rest : j = i \/ Precedes(i, j)
        picked[p \in 0..m] ==
            IF p = 0 THEN <<>>
            ELSE LET before == picked[p - 1]
                 IN  Append(before,
                            First((1..n) \ {before[q] : q \in 1..Len(before)}))
        order == picked[m]
    IN  Listed([p \in 1..m |-> elems[order[p]]])

SortBy(s, Before(_, _)) == SortedPrefix(s, Before, Len(s))

(***************************************************************************)
(* Single-trip assignment resolver                                         *)
(***************************************************************************)
\* one entry of evaluations in findBestVehicleAssignment
Evaluate(trip, vehicle) ==
    LET optimization == calculateOptimizationScore(trip, vehicle, vehicle.trips)
    IN  [vehicle |-> vehicle,
         optimization |-> [score |-> calculateEnhancedCompatibilityScore(
                                         trip, vehicle, optimization.score),
                           originalScore |-> optimization.score,
                           details |-> optimization.details],
         isAvailable |-> vehicle.status = "available",
         isBusy |-> vehicle.status = "busy"]

\* mutation: the comparator orders by score alone
EvaluationBeforeScoreOnly(a, b) ==
    b.optimization.score - a.optimization.score < 0

\* the comparator of evaluations.sort: a is placed before b
EvaluationBefore(a, b) ==
    LET scoreDiff == b.optimization.score - a.optimization.score
    IN  IF Abs(scoreDiff) < 5 /\ a.isAvailable # b.isAvailable
        THEN a.isAvailable
        ELSE scoreDiff < 0

NoAssignment ==
    [success |-> FALSE, recommended |-> Undefined, forced |-> FALSE]

\* mutation: only the vehicles that are available are candidates
candidateVehiclesAvailableOnly(vehicleList) ==
    SelectSeq(vehicleList, LAMBDA v : v.status = "available")

\* vehicles.filter(vehicle => vehicle.status !== 'maintenance')
candidateVehicles(vehicleList) ==
    SelectSeq(vehicleList, LAMBDA v : v.status # "maintenance")

findBestVehicleAssignment(trip, vehicleList) ==
    LET candidates == candidateVehicles(vehicleList)
    IN  IF Len(candidates) = 0 THEN NoAssignment
        ELSE LET evaluations == SortBy([i \in 1..Len(candidates) |->
                                            Evaluate(trip, candidates[i])],
                                       EvaluationBefore)
                 bestAssignment == evaluations[1]
             IN  [success |-> TRUE,
                  recommended |-> bestAssignment,
                  forced |-> ~(bestAssignment.optimization.score > 5)]

(***************************************************************************)
(* Conflict resolver: the four option generators                           *)
(***************************************************************************)
\* timeSlots of findAlternativeTimeSlots: 07:00 .. 18:30 by half hours
AlternativeTimeSlots ==
    Listed([k \in 1..24 |-> <<7 + ((k - 1) \div 2), 30 * ((k - 1) % 2)>>])

\* timeSlots of suggestRescheduling
ReschedulingTimeSlots ==
    <<<<7, 0>>, <<8, 0>>, <<9, 0>>, <<10, 0>>, <<11, 0>>,
      <<14, 0>>, <<15, 0>>, <<16, 0>>, <<17, 0>>>>

calculateTimeShift(originalTime, newTime) ==
    convertTimeToMinutes(newTime) - convertTimeToMinutes(originalTime)

calculateTimeChangeImpact(originalTime, newTime) ==
    LET shift == Abs(calculateTimeShift(originalTime, newTime))
    IN  IF shift <= 30 THEN "minimal"
        ELSE IF shift <= 60 THEN "low"
        ELSE IF shift <= 120 THEN "medium"
        ELSE "high"

\* the comparator of the sort in findAlternativeTimeSlots
TimeOptionBefore(a, b) ==
    LET scoreDiff == b.optimizationScore - a.optimizationScore
    IN  IF Abs(scoreDiff) < 10
        THEN Abs(a.timeShift) - Abs(b.timeShift) < 0
        ELSE scoreDiff < 0

findAlternativeTimeSlots(trip, vehicleList) ==
    LET originalTime == TripTime(trip)
        n == Len(vehicleList)
        \* one iteration of the two loops: the alternative it pushes, if any
        Probe(timeSlot, vehicle) ==
            IF timeSlot = originalTime
               \/ ~(vehicle.status = "available" \/ vehicle.status = "busy")
            THEN [kept |-> FALSE]
            ELSE LET optimization ==
                         calculateOptimizationScore(
                             [trip EXCEPT !.pickupTime = timeSlot, !.time = timeSlot],
                             vehicle, vehicle.trips)
                 IN  IF optimization.score > 0 /\ Len(optimization.details.conflicts) = 0
                     THEN [kept |-> TRUE,
                           option |->
                               [newTime |-> timeSlot,
                                vehicle |-> vehicle.name,
                                optimizationScore |-> optimization.score,
                                timeShift |-> calculateTimeShift(originalTime, timeSlot),
                                impact |-> calculateTimeChangeImpact(originalTime, timeSlot)]]
                     ELSE [kept |-> FALSE]
        \* the (time slot, vehicle) pairs in the order of the two loops
        probes == Listed([k \in 1..(Len(AlternativeTimeSlots) * n) |->
                      Probe(AlternativeTimeSlots[((k - 1) \div n) + 1],
                            vehicleList[((k - 1) % n) + 1])])
        kept == SelectSeq(probes, LAMBDA p : p.kept)
        alternatives == [i \in 1..Len(kept) |-> kept[i].option]
    IN  SortedPrefix(alternatives, TimeOptionBefore, 3)

\* the comparator of the sort in findAlternativeVehicles
VehicleOptionBefore(a, b) ==
    IF a.conflicts # b.conflicts THEN a.conflicts - b.conflicts < 0
    ELSE b.optimizationScore - a.optimizationScore < 0

findAlternativeVehicles(trip, vehicleList) ==
    LET Probe(vehicle) ==
            IF vehicle.status = "maintenance" THEN [kept |-> FALSE]
            ELSE LET optimization ==
                         calculateOptimizationScore(trip, vehicle, vehicle.trips)
                 IN  IF optimization.score > 30
                     THEN [kept |-> TRUE,
                           option |->
                               [vehicle |-> vehicle.name,
                                vehicleType |-> vehicle.type,
                                currentStatus |-> vehicle.status,
                                optimizationScore |-> optimization.score,
                                conflicts |-> Len(optimization.details.conflicts)]]
                     ELSE [kept |-> FALSE]
        probes == Listed([i \in 1..Len(vehicleList) |-> Probe(vehicleList[i])])
        kept == SelectSeq(probes, LAMBDA p : p.kept)
        alternatives == [i \in 1..Len(kept) |-> kept[i].option]
    IN  SortedPrefix(alternatives, VehicleOptionBefore, 4)

\* s without its i-th element (filter(t => t !== s[i]) on distinct objects)
RemoveAt(s, i) == SubSeq(s, 1, i - 1) \o SubSeq(s, i + 1, Len(s))

ReschedulingOptionBefore(a, b) == b.newTripScore - a.newTripScore < 0

suggestRescheduling(newTrip, vehicleList, existingTrips) ==
    LET nSlots == Len(ReschedulingTimeSlots)
        \* one iteration of the three loops: the option it pushes, if any
        Probe(vehicle, e, newTime) ==
            IF vehicle.trips[e].priority = "urgent" THEN [kept |-> FALSE]
            ELSE LET existingTrip == vehicle.trips[e]
                     tempTrips == RemoveAt(vehicle.trips, e)
                     rescheduledTrip ==
                         [existingTrip EXCEPT !.pickupTime = newTime, !.time = newTime]
                     rescheduledOptimization ==
                         calculateOptimizationScore(rescheduledTrip, vehicle, tempTrips)
                     newTripOptimization ==
                         calculateOptimizationScore(newTrip, vehicle,
                                                    Append(tempTrips, rescheduledTrip))
                 IN  IF /\ rescheduledOptimization.score > 60
                        /\ newTripOptimization.score > 60
                        /\ Len(rescheduledOptimization.details.conflicts) = 0
                        /\ Len(newTripOptimization.details.conflicts) = 0
                     THEN [kept |-> TRUE,
                           option |->
                               [vehicle |-> vehicle.name,
                                tripToReschedule |->
                                    [patient |-> existingTrip.patient,
                                     oldTime |-> IF existingTrip.time # NoTime
                                                 THEN existingTrip.time
                                                 ELSE existingTrip.pickupTime,
                                     newTime |-> newTime],
                                newTripScore |-> newTripOptimization.score]]
                     ELSE [kept |-> FALSE]
        \* the iterations on the trips of the v-th vehicle, in order
        PerVehicle(v) ==
            Listed([k \in 1..(Len(vehicleList[v].trips) * nSlots) |->
                Probe(vehicleList[v], ((k - 1) \div nSlots) + 1,
                      ReschedulingTimeSlots[((k - 1) % nSlots) + 1])])
        KeptOf(v) == SelectSeq(PerVehicle(v), LAMBDA p : p.kept)
        \* concatenation over the vehicles, in order
        Upto[v \in 0..Len(vehicleList)] ==
            IF v = 0 THEN <<>> ELSE Upto[v - 1] \o KeptOf(v)
        kept == Upto[Len(vehicleList)]
        reschedulingOptions == [i \in 1..Len(kept) |-> kept[i].option]
    IN  SortedPrefix(reschedulingOptions, ReschedulingOptionBefore, 3)

\* which of the cities tested by findNearbyTrips the lower-cased address names
CitiesNamed(address) ==
    CASE address = "Hyères" -> {"hyères"}
      [] address = "CHU Toulon" -> {"toulon"}
      [] OTHER -> {}

\* the first filter of findNearbyTrips (no trip of the model is completed)
OtherTrips(trip, allTrips) == SelectSeq(allTrips, LAMBDA t : t.id # trip.id)

\* findNearbyTrips throws: pickup.toLowerCase() on an undefined pickup
findNearbyTripsThrows(trip, allTrips) ==
    LET others == OtherTrips(trip, allTrips)
    IN  /\ Len(others) > 0
        /\ \/ trip.pickup = Undefined
           \/ \E i \in 1..Len(others) : others[i].pickup = Undefined

findNearbyTrips(trip, allTrips) ==
    Slice(SelectSeq(OtherTrips(trip, allTrips),
                    LAMBDA t : CitiesNamed(trip.pickup) \cap CitiesNamed(t.pickup) # {}),
          0, 3)

canCombineTrips(trip1, trip2) ==
    /\ Abs(convertTimeToMinutes(TripTime(trip1)) - convertTimeToMinutes(TripTime(trip2))) <= 60
    /\ trip1.vehicleType = trip2.vehicleType
    /\ trip1.priority # "urgent"
    /\ trip2.priority # "urgent"

\* evaluateCombinedTrips: the vehicles of the required type, whatever their status
evaluateCombinedTrips(trip1, trip2, vehicleList) ==
    LET compatibleVehicles == SelectSeq(vehicleList, LAMBDA v : v.type = trip1.vehicleType)
    IN  IF Len(compatibleVehicles) = 0
        THEN [feasible |-> FALSE, vehicle |-> Undefined]
        ELSE [feasible |-> TRUE, vehicle |-> compatibleVehicles[1].name]

evaluateMultiVehicleCoordination(trip, vehicleList) ==
    LET availableVehicles == SelectSeq(vehicleList, LAMBDA v : v.status = "available")
    IN  [feasible |-> Len(availableVehicles) >= 2]

suggestTripOptimizations(trip, vehicleList, allTrips) ==
    LET nearbyTrips == findNearbyTrips(trip, allTrips)
        Feasible(nearbyTrip) ==
            /\ canCombineTrips(trip, nearbyTrip)
            /\ evaluateCombinedTrips(trip, nearbyTrip, vehicleList).feasible
        kept == SelectSeq(nearbyTrips, Feasible)
        combined ==
            [i \in 1..Len(kept) |->
                [type |-> "combine_trips",
                 vehicle |-> evaluateCombinedTrips(trip, kept[i], vehicleList).vehicle]]
        multi == IF (trip.priority = "urgent" \/ trip.priority = "high")
                    /\ evaluateMultiVehicleCoordination(trip, vehicleList).feasible
                 THEN <<[type |-> "multi_vehicle", vehicle |-> Undefined]>>
                 ELSE <<>>
    IN  Slice(combined \o multi, 0, 2)

\* resolveConflicts: the non-empty strategies, in the order they are pushed
resolveConflicts(trip, vehicleList, allTrips) ==
    LET timeAlternatives == findAlternativeTimeSlots(trip, vehicleList)
        vehicleAlternatives == findAlternativeVehicles(trip, vehicleList)
        reschedulingOptions == suggestRescheduling(trip, vehicleList, allTrips)
        optimizationOptions == suggestTripOptimizations(trip, vehicleList, allTrips)
        Strategy(type, options) ==
            IF Len(options) > 0 THEN <<[type |-> type, options |-> options]>> ELSE <<>>
    IN  Strategy("time_adjustment", timeAlternatives)
        \o Strategy("vehicle_change", vehicleAlternatives)
        \o Strategy("reschedule_existing", reschedulingOptions)
        \o Strategy("trip_optimization", optimizationOptions)

\* mutation: the last generated strategy is recommended instead of the first
recommendedStrategyLast(resolutionStrategies) ==
    resolutionStrategies[Len(resolutionStrategies)]

\* recommendedStrategy of resolveConflicts, for a non-empty list of strategies
recommendedStrategy(resolutionStrategies) == resolutionStrategies[1]

(***************************************************************************)
(* Batch optimizer: application of a resolution strategy                   *)
(***************************************************************************)
\* vehicles.find(v => v.name === name): index of the first match, 0 if none
FindByName(vehicleList, name) ==
    LET hits == {i \in 1..Len(vehicleList) : vehicleList[i].name = name}
    IN  IF hits = {} THEN 0 ELSE CHOOSE i \in hits : \A j \in hits : i <= j

ApplyFailed(va) == [success |-> FALSE, va |-> va, vehicle |-> 0, score |-> 0]

applyTimeAdjustment(trip, timeOption, vehicleList, va) ==
    LET adjustedTrip == [trip EXCEPT !.pickupTime = timeOption.newTime,
                                     !.time = timeOption.newTime]
        t == FindByName(vehicleList, timeOption.vehicle)
    IN  IF t = 0 THEN ApplyFailed(va)
        ELSE LET targetVehicle == vehicleList[t]
                 currentTrips == va[targetVehicle.id]
                 optimization == calculateOptimizationScore(adjustedTrip, targetVehicle, currentTrips)
             IN  IF optimization.score > 60 /\ Len(optimization.details.conflicts) = 0
                 THEN [success |-> TRUE,
                       va |-> [va EXCEPT ![targetVehicle.id] = Append(currentTrips, adjustedTrip)],
                       vehicle |-> targetVehicle.id,
                       score |-> optimization.score]
                 ELSE ApplyFailed(va)

applyVehicleChange(trip, vehicleOption, vehicleList, va) ==
    LET t == FindByName(vehicleList, vehicleOption.vehicle)
    IN  IF t = 0 THEN ApplyFailed(va)
        ELSE LET targetVehicle == vehicleList[t]
                 currentTrips == va[targetVehicle.id]
                 optimization == calculateOptimizationScore(trip, targetVehicle, currentTrips)
             IN  IF optimization.score > 30
                 THEN [success |-> TRUE,
                       va |-> [va EXCEPT ![targetVehicle.id] = Append(currentTrips, trip)],
                       vehicle |-> targetVehicle.id,
                       score |-> optimization.score]
                 ELSE ApplyFailed(va)

\* currentTrips.find(t => t.patient === patient): index of the first match
FindByPatient(tripList, patient) ==
    LET hits == {i \in 1..Len(tripList) : tripList[i].patient = patient}
    IN  IF hits = {} THEN 0 ELSE CHOOSE i \in hits : \A j \in hits : i <= j

applyRescheduling(trip, reschedulingOption, vehicleList, va) ==
    LET t == FindByName(vehicleList, reschedulingOption.vehicle)
    IN  IF t = 0 THEN ApplyFailed(va)
        ELSE LET targetVehicle == vehicleList[t]
                 currentTrips == va[targetVehicle.id]
                 r == FindByPatient(currentTrips, reschedulingOption.tripToReschedule.patient)
             IN  IF r = 0 THEN ApplyFailed(va)
                 ELSE LET rescheduledTrip ==
                              [currentTrips[r] EXCEPT
                                  !.time = reschedulingOption.tripToReschedule.newTime,
                                  !.pickupTime = reschedulingOption.tripToReschedule.newTime]
                          updatedTrips ==
                              Append(Append(RemoveAt(currentTrips, r), rescheduledTrip), trip)
                          optimization ==
                              calculateOptimizationScore(trip, targetVehicle, updatedTrips)
                      IN  [success |-> TRUE,
                           va |-> [va EXCEPT ![targetVehicle.id] = updatedTrips],
                           vehicle |-> targetVehicle.id,
                           score |-> optimization.score]

applyTripOptimization(trip, optimizationOption, vehicleList, va) ==
    LET t == IF optimizationOption.type = "combine_trips"
             THEN FindByName(vehicleList, optimizationOption.vehicle)
             ELSE 0
    IN  IF t = 0 THEN ApplyFailed(va)
        ELSE LET targetVehicle == vehicleList[t]
                 currentTrips == va[targetVehicle.id]
                 optimization == calculateOptimizationScore(trip, targetVehicle, currentTrips)
             IN  IF optimization.score > 40
                 THEN [success |-> TRUE,
                       va |-> [va EXCEPT ![targetVehicle.id] = Append(currentTrips, trip)],
                       vehicle |-> targetVehicle.id,
                       score |-> optimization.score]
                 ELSE ApplyFailed(va)

applyResolutionStrategy(trip, strategy, vehicleList, va) ==
    CASE strategy.type = "time_adjustment" ->
             applyTimeAdjustment(trip, strategy.options[1], vehicleList, va)
      [] strategy.type = "vehicle_change" ->
             applyVehicleChange(trip, strategy.options[1], vehicleList, va)
      [] strategy.type = "reschedule_existing" ->
             applyRescheduling(trip, strategy.options[1], vehicleList, va)
      [] strategy.type = "trip_optimization" ->
             applyTripOptimization(trip, strategy.options[1], vehicleList, va)
      [] OTHER -> ApplyFailed(va)

(***************************************************************************)
(* Batch optimizer: optimizeMultipleTrips                                  *)
(***************************************************************************)
priorityOrder(priority) ==
    CASE priority = "urgent" -> 4
      [] priority = "high" -> 3
      [] priority = "normal" -> 2
      [] priority = "low" -> 1
      [] OTHER -> 2

\* the comparator of the sort of the input trips
TripBefore(a, b) ==
    LET priorityDiff == priorityOrder(b.priority) - priorityOrder(a.priority)
    IN  IF priorityDiff # 0 THEN priorityDiff < 0
        ELSE localeCompare(TripTime(a), TripTime(b)) < 0

\* mutation: each iteration sees the vehicles as they were passed in
updatedVehiclesStale(vehicleList, va) == vehicleList

\* vehicles.map(vehicle => ({...vehicle, trips: vehicleAssignments.get(vehicle.id)}))
updatedVehicles(vehicleList, va) ==
    Listed([i \in 1..Len(vehicleList) |->
               [vehicleList[i] EXCEPT !.trips = va[vehicleList[i].id]]])

(***************************************************************************)
(* Inputs of the batch optimizer                                           *)
(***************************************************************************)
\* the trips a caller may pass: an ordinary trip, a later one, an urgent one,
\* and one whose pickup address is missing
TripTemplates ==
    {[patient |-> "Mme Dupont", pickup |-> "CHU Toulon", destination |-> "Hyères",
      pickupTime |-> <<9, 0>>, vehicleType |-> "Ambulance", priority |-> "normal"],
     [patient |-> "Mme Dupont", pickup |-> "CHU Toulon", destination |-> "Hyères",
      pickupTime |-> <<9, 20>>, vehicleType |-> "Ambulance", priority |-> "normal"],
     [patient |-> "Mme Dupont", pickup |-> "CHU Toulon", destination |-> "Hyères",
      pickupTime |-> <<9, 0>>, vehicleType |-> "Ambulance", priority |-> "urgent"],
     [patient |-> "Mme Dupont", pickup |-> Undefined, destination |-> "Hyères",
      pickupTime |-> <<9, 0>>, vehicleType |-> "Ambulance", priority |-> "normal"]}

MakeTrip(id, tpl) ==
    [id |-> id, patient |-> tpl.patient, pickup |-> tpl.pickup,
     destination |-> tpl.destination, pickupTime |-> tpl.pickupTime,
     time |-> NoTime, vehicleType |-> tpl.vehicleType, priority |-> tpl.priority]

\* trip lists with caller-assigned unique ids 1..n
TripLists ==
    UNION { { [i \in 1..n |-> MakeTrip(i, f[i])] : f \in [1..n -> TripTemplates] }
            : n \in 0..MaxTrips }

\* a trip already on a vehicle when the run starts
PersistedTrip(vehicleId) ==
    [id |-> 100 + vehicleId, patient |-> "M. Martin", pickup |-> "CHU Toulon",
     destination |-> "Hyères", pickupTime |-> <<9, 0>>, time |-> NoTime,
     vehicleType |-> "Ambulance", priority |-> "normal"]

VehicleTypes == {"Ambulance", "Taxi"}

VehicleStatuses == {"available", "maintenance"}

VehicleTemplates == [type : VehicleTypes, status : VehicleStatuses]

VehicleNames == <<"Ambulance Alpha", "Ambulance Beta", "VSL Gamma", "VSL Delta">>

\* seeded: the vehicle comes from persisted state and carries a trip
MakeVehicle(id, tpl, seeded) ==
    [id |-> id, name |-> VehicleNames[id], type |-> tpl.type, status |-> tpl.status,
     currentLocation |-> Undefined,
     trips |-> IF seeded THEN <<PersistedTrip(id)>> ELSE <<>>]

\* fleets with unique ids and names, fresh or seeded from persisted state
Fleets ==
    UNION { { [i \in 1..n |-> MakeVehicle(i, f[i], seeded)] :
                f \in [1..n -> VehicleTemplates], seeded \in BOOLEAN }
            : n \in 0..MaxVehicles }

(***************************************************************************)
(* Result entries and the history of the second pass                       *)
(***************************************************************************)
AssignedResult(trip, vehicleId, score, resolution) ==
    [trip |-> trip, status |-> "assigned", vehicle |-> vehicleId,
     score |-> score, resolutionApplied |-> resolution]

UnassignedResult(trip) ==
    [trip |-> trip, status |-> "unassigned", vehicle |-> 0,
     score |-> 0, resolutionApplied |-> "none"]

\* mutation: a trip the second pass cannot place is dropped without an entry
reportUnassignedDropped(resultList, trip) == resultList

\* results.push({trip, assignment: null, status: 'unassigned', ...})
reportUnassigned(resultList, trip) == Append(resultList, UnassignedResult(trip))

\* the strategy types whose application would succeed on the working lists
ViableStrategies(trip, strategies, vehicleList, va) ==
    {strategies[i].type : i \in
        {j \in 1..Len(strategies) :
            applyResolutionStrategy(trip, strategies[j], vehicleList, va).success}}

(***************************************************************************)
(* Actions of optimizeMultipleTrips                                        *)
(***************************************************************************)
\* lines 1148-1168: working copy of the trip lists, sorted trips
BatchStart ==
    /\ pc = "start"
    /\ vehicleAssignments' = [id \in 1..Len(vehicles) |-> vehicles[id].trips]
    /\ sortedTrips' = SortBy(trips, TripBefore)
    /\ pos' = 1
    /\ unresolvableConflicts' = <<>>
    /\ results' = <<>>
    /\ attempts' = <<>>
    /\ pc' = IF Len(trips) = 0 THEN "summary" ELSE "pass1"
    /\ UNCHANGED <<callVars, trips, vehicles, assignment, returnVars, smartVars>>

\* lines 1171-1200: one iteration of the first pass
Pass1Step ==
    /\ pc = "pass1"
    /\ \E found \in {findBestVehicleAssignment(
                          sortedTrips[pos],
                          updatedVehicles(vehicles, vehicleAssignments))} :
         LET trip == sortedTrips[pos]
             last == pos = Len(sortedTrips)
         IN  /\ assignment' = found
             /\ IF found.success /\ ConflictsUndefined(found.recommended.optimization)
                THEN \* details.conflicts is undefined: reading .length throws
                     /\ pc' = "thrown"
                     /\ UNCHANGED <<pos, vehicleAssignments, unresolvableConflicts, results>>
                ELSE /\ pos' = IF last THEN 1 ELSE pos + 1
                     /\ IF found.success
                           /\ Len(found.recommended.optimization.details.conflicts) = 0
                        THEN LET vehicleId == found.recommended.vehicle.id
                             IN  /\ vehicleAssignments' =
                                        [vehicleAssignments EXCEPT
                                            ![vehicleId] = Append(@, trip)]
                                 /\ results' = Append(results,
                                        AssignedResult(trip, vehicleId,
                                            found.recommended.optimization.score, "none"))
                                 /\ UNCHANGED unresolvableConflicts
                        ELSE /\ unresolvableConflicts' = Append(unresolvableConflicts, trip)
                             /\ UNCHANGED <<vehicleAssignments, results>>
                     /\ pc' = IF ~last THEN "pass1"
                              ELSE IF Len(unresolvableConflicts') = 0 THEN "summary"
                              ELSE "pass2"
    /\ UNCHANGED <<callVars, trips, vehicles, sortedTrips, attempts, returnVars, smartVars>>

\* lines 1204-1245: one iteration of the second pass
Pass2Step ==
    /\ pc = "pass2"
    /\ LET conflictTrip == unresolvableConflicts[pos]
           last == pos = Len(unresolvableConflicts)
       IN  IF findNearbyTripsThrows(conflictTrip, trips)
           THEN /\ pc' = "thrown"
                /\ UNCHANGED <<pos, vehicleAssignments, results, attempts>>
           ELSE \E fleet \in {updatedVehicles(vehicles, vehicleAssignments)} :
                \E strategies \in {resolveConflicts(conflictTrip, fleet, trips)} :
                    /\ attempts' = Append(attempts,
                           [tripId |-> conflictTrip.id,
                            generated |-> [i \in 1..Len(strategies) |-> strategies[i].type],
                            applied |-> IF Len(strategies) > 0
                                        THEN recommendedStrategy(strategies).type
                                        ELSE "none",
                            viable |-> ViableStrategies(conflictTrip, strategies,
                                                        fleet, vehicleAssignments)])
                    /\ pos' = IF last THEN 1 ELSE pos + 1
                    /\ pc' = IF last THEN "summary" ELSE "pass2"
                    /\ IF Len(strategies) > 0
                       THEN \E strategy \in {recommendedStrategy(strategies)} :
                            \E resolved \in {applyResolutionStrategy(
                                    conflictTrip, strategy, fleet, vehicleAssignments)} :
                                /\ vehicleAssignments' = resolved.va
                                /\ results' =
                                       IF resolved.success
                                       THEN Append(results,
                                                AssignedResult(conflictTrip, resolved.vehicle,
                                                               resolved.score, strategy.type))
                                       ELSE reportUnassigned(results, conflictTrip)
                       ELSE /\ results' = reportUnassigned(results, conflictTrip)
                            /\ UNCHANGED vehicleAssignments
    /\ UNCHANGED <<callVars, trips, vehicles, sortedTrips, unresolvableConflicts, assignment,
                   returnVars, smartVars>>

\* lines 1247-1279: summary statistics and return
BatchReturn ==
    /\ pc = "summary"
    /\ pc' = "done"
    /\ UNCHANGED <<callVars, batchVars, returnVars, smartVars>>

(***************************************************************************)
(* Idle values of the variables a specification does not use               *)
(***************************************************************************)
BatchIdle ==
    /\ trips = <<>>
    /\ vehicles = <<>>
    /\ sortedTrips = <<>>
    /\ pos = 1
    /\ vehicleAssignments = <<>>
    /\ unresolvableConflicts = <<>>
    /\ results = <<>>
    /\ assignment = NoAssignment
    /\ attempts = <<>>

ReturnIdle ==
    /\ courses = <<>>
    /\ returnCourses = <<>>
    /\ expanded = <<>>
    /\ secondReturns = <<>>

\* no completion value is being handed to a caller
NoCompletion ==
    [state |-> "none", from |-> "none", fields |-> {}, algorithm |-> Undefined,
     fallback |-> FALSE]

\* getOptimizationServiceStatus has not been called
NoServiceStatus ==
    [osrm |-> FALSE, vroom |-> FALSE, recommendedMethod |-> "none"]

SmartIdle ==
    /\ osrmUp = FALSE
    /\ vroomUp = FALSE
    /\ serviceStatus = NoServiceStatus
    /\ tier = <<>>
    /\ caught = {}
    /\ smartResult = NoCompletion

\* no request of the routing client or of the solver client is open
NoResponse == [state |-> "none"]

\* no second run of the batch optimizer exists
NoRun == [pc |-> "none"]

\* the application has rendered and no optimization was asked for
NoResult == [run |-> 0, config |-> 0, kind |-> "null"]

AppIdle ==
    /\ isOptimizing = FALSE
    /\ optimizationResult = NoResult
    /\ timeWindowConfig = 1
    /\ inFlight = {}
    /\ started = 0

CallIdle ==
    /\ coordinates = <<>>
    /\ serverUrls = <<>>
    /\ response = NoResponse
    /\ suspended = NoRun
    /\ AppIdle
    /\ totals = <<>>

(***************************************************************************)
(* Specification of one run of optimizeMultipleTrips                       *)
(***************************************************************************)
Init ==
    /\ trips \in TripLists
    /\ vehicles \in Fleets
    /\ sortedTrips = <<>>
    /\ pos = 1
    /\ vehicleAssignments = <<>>
    /\ unresolvableConflicts = <<>>
    /\ results = <<>>
    /\ assignment = NoAssignment
    /\ attempts = <<>>
    /\ pc = "start"
    /\ ReturnIdle
    /\ SmartIdle
    /\ CallIdle

Next ==
    \/ BatchStart
    \/ Pass1Step
    \/ Pass2Step
    \/ BatchReturn

Spec == Init /\ [][Next]_vars

(***************************************************************************)
(* Specification of one call of findBestVehicleAssignment                  *)
(***************************************************************************)
AssignTripTemplates ==
    [patient : {"Mme Dupont"}, pickup : {"CHU Toulon", Undefined},
     destination : {"Hyères"}, pickupTime : {<<9, 0>>},
     vehicleType : {"Ambulance", "VSL", "Taxi"}, priority : {"urgent", "normal"}]

AssignVehicleTemplates ==
    [type : {"Ambulance", "VSL", "Taxi"},
     status : {"available", "busy", "maintenance"}]

AssignFleets ==
    UNION { { [i \in 1..n |-> MakeVehicle(i, f[i], seeded)] :
                f \in [1..n -> AssignVehicleTemplates], seeded \in BOOLEAN }
            : n \in 0..MaxVehicles }

InitAssign ==
    /\ trips \in { <<MakeTrip(1, tpl)>> : tpl \in AssignTripTemplates }
    /\ vehicles \in AssignFleets
    /\ sortedTrips = <<>>
    /\ pos = 1
    /\ vehicleAssignments = <<>>
    /\ unresolvableConflicts = <<>>
    /\ results = <<>>
    /\ assignment = NoAssignment
    /\ attempts = <<>>
    /\ pc = "assign"
    /\ ReturnIdle
    /\ SmartIdle
    /\ CallIdle

\* findBestVehicleAssignment(trip, vehicles)
Assign ==
    /\ pc = "assign"
    /\ assignment' = findBestVehicleAssignment(trips[1], vehicles)
    /\ pc' = "assigned"
    /\ UNCHANGED <<callVars, trips, vehicles, sortedTrips, pos, vehicleAssignments,
                   unresolvableConflicts, results, attempts, returnVars, smartVars>>

NextAssign == Assign

SpecAssign == InitAssign /\ [][NextAssign]_vars

(***************************************************************************)
(* Return-trip generator                                                   *)
(***************************************************************************)
\* "HH:MM" of a number of minutes; the hours are not reduced modulo 24
TimeOfMinutes(minutes) == <<minutes \div 60, minutes % 60>>

calculateExitTime(appointmentTime, duration) ==
    TimeOfMinutes(appointmentTime[1] * 60 + appointmentTime[2] + duration)

\* mutation: the return may be picked up at the exit time, without buffer
calculateReturnPickupTimeNoBuffer(exitTime, bufferMinutes) == exitTime

calculateReturnPickupTime(exitTime, bufferMinutes) ==
    TimeOfMinutes(exitTime[1] * 60 + exitTime[2] + bufferMinutes)

generateReturnCourse(originalCourse, newId) ==
    LET exitTime == IF originalCourse.returnTime # NoTime
                    THEN originalCourse.returnTime
                    ELSE calculateExitTime(originalCourse.appointmentTime,
                                           originalCourse.duration)
    IN  [id |-> newId,
         patient |-> originalCourse.patient,
         pickup |-> originalCourse.destination,
         destination |-> originalCourse.pickup,
         coordinates |-> originalCourse.destinationCoords,
         destinationCoords |-> originalCourse.coordinates,
         appointmentTime |-> exitTime,
         duration |-> 30,
         returnTime |-> NoTime,
         isReturnTrip |-> TRUE,
         originalCourseId |-> originalCourse.id,
         exitTime |-> exitTime,
         earliestPickupTime |-> calculateReturnPickupTime(exitTime, 15),
         maxWaitTime |-> 240]

\* course.duration && course.duration > 0
hasValidDuration(course) == course.duration > 0

\* mutation: a return time of 00:00 counts as a return time
hasValidReturnTimeAny(course) == course.returnTime # NoTime

\* course.returnTime && course.returnTime !== '00:00' && course.returnTime !== '0:00'
hasValidReturnTime(course) ==
    course.returnTime # NoTime /\ course.returnTime # <<0, 0>>

\* mutation: the id of the last course is taken for the largest
MaxIdOfLast(courseList) ==
    IF Len(courseList) = 0 THEN 0 ELSE courseList[Len(courseList)].id

\* Math.max(...courses.map(c => c.id), 0)
MaxId(courseList) ==
    IF Len(courseList) = 0 THEN 0
    ELSE LET ids == {courseList[i].id : i \in 1..Len(courseList)} \cup {0}
         IN  CHOOSE m \in ids : \A n \in ids : n <= m

generateReturnCourses(courseList) ==
    LET expandable ==
            SelectSeq(courseList,
                      LAMBDA course : /\ ~course.isReturnTrip
                                      /\ \/ hasValidDuration(course)
                                         \/ hasValidReturnTime(course))
    IN  Listed([k \in 1..Len(expandable) |->
                   generateReturnCourse(expandable[k], MaxId(courseList) + k)])

processCoursesWithReturns(courseList) ==
    courseList \o generateReturnCourses(courseList)

(***************************************************************************)
(* Specification of the return-trip generator                              *)
(***************************************************************************)
\* courses as ingestion creates them, none generated by the program
CourseTemplates ==
    [appointmentTime : {<<9, 0>>, <<23, 30>>}, duration : {0, 45},
     returnTime : {NoTime, <<0, 0>>, <<11, 30>>}, isReturnTrip : BOOLEAN]

MakeCourse(id, tpl) ==
    [id |-> id, patient |-> "Mme Dupont", pickup |-> "Hyères",
     destination |-> "CHU Toulon",
     coordinates |-> <<6128, 43120>>, destinationCoords |-> <<5928, 43124>>,
     appointmentTime |-> tpl.appointmentTime,
     duration |-> tpl.duration, returnTime |-> tpl.returnTime,
     isReturnTrip |-> tpl.isReturnTrip, originalCourseId |-> 0,
     exitTime |-> NoTime, earliestPickupTime |-> NoTime, maxWaitTime |-> 0]

CourseLists ==
    UNION { { [i \in 1..n |-> MakeCourse(i, f[i])] : f \in [1..n -> CourseTemplates] }
            : n \in 0..MaxCourses }

InitReturns ==
    /\ BatchIdle
    /\ SmartIdle
    /\ CallIdle
    /\ pc = "courses"
    /\ courses \in CourseLists
    /\ returnCourses = <<>>
    /\ expanded = <<>>
    /\ secondReturns = <<>>

\* generateReturnCourses(courses)
GenerateReturns ==
    /\ pc = "courses"
    /\ returnCourses' = generateReturnCourses(courses)
    /\ pc' = "generated"
    /\ UNCHANGED <<callVars, batchVars, smartVars, courses, expanded, secondReturns>>

\* processCoursesWithReturns(courses), as the import handler stores it
ProcessCourses ==
    /\ pc = "courses"
    /\ expanded' = processCoursesWithReturns(courses)
    /\ pc' = "processed"
    /\ UNCHANGED <<callVars, batchVars, smartVars, courses, returnCourses, secondReturns>>

\* generateReturnCourses on the stored list, as the optimization handler
\* does through processCoursesWithReturns
GenerateAgain ==
    /\ pc = "processed"
    /\ secondReturns' = generateReturnCourses(expanded)
    /\ pc' = "again"
    /\ UNCHANGED <<callVars, batchVars, smartVars, courses, returnCourses, expanded>>

NextReturns ==
    \/ GenerateReturns
    \/ ProcessCourses
    \/ GenerateAgain

SpecReturns == InitReturns /\ [][NextReturns]_vars

\* the same generator on courses whose ids are neither consecutive nor in
\* order, as after deletions and imports
InitReturnIds ==
    /\ BatchIdle
    /\ SmartIdle
    /\ CallIdle
    /\ pc = "courses"
    /\ courses \in UNION { { [i \in 1..n |->
                                 MakeCourse(ids[i],
                                            [appointmentTime |-> <<9, 0>>,
                                             duration |-> f[i].duration,
                                             returnTime |-> NoTime,
                                             isReturnTrip |-> f[i].isReturnTrip])] :
                             ids \in { g \in [1..n -> {1, 2, 4, 7}] :
                                         \A i, j \in 1..n : i # j => g[i] # g[j] },
                             f \in [1..n -> [duration : {0, 45},
                                             isReturnTrip : BOOLEAN]] }
                           : n \in 0..MaxCourses }
    /\ returnCourses = <<>>
    /\ expanded = <<>>
    /\ secondReturns = <<>>

SpecReturnIds == InitReturnIds /\ [][NextReturns]_vars

(***************************************************************************)
(* Tiered dispatcher: smartOptimize and the optimizers it calls            *)
(***************************************************************************)
\* mutation: the Solver alone decides for the Solver path
recommendedMethodSolverFirst(osrmAvailable, vroomAvailable) ==
    IF vroomAvailable THEN "optimizeWithOSRMAndVROOM"
    ELSE IF osrmAvailable THEN "optimizeWithOSRMOnly"
    ELSE "optimizeMultipleTrips"

recommendedMethod(osrmAvailable, vroomAvailable) ==
    IF osrmAvailable /\ vroomAvailable THEN "optimizeWithOSRMAndVROOM"
    ELSE IF osrmAvailable THEN "optimizeWithOSRMOnly"
    ELSE "optimizeMultipleTrips"

getOptimizationServiceStatus(osrmAvailable, vroomAvailable) ==
    [osrm |-> osrmAvailable, vroom |-> vroomAvailable,
     recommendedMethod |-> recommendedMethod(osrmAvailable, vroomAvailable)]

\* the switch of smartOptimize
SmartCallee(status) ==
    IF status.recommendedMethod = "optimizeWithOSRMAndVROOM"
    THEN "optimizeWithOSRMAndVROOM"
    ELSE IF status.recommendedMethod = "optimizeWithOSRMOnly"
    THEN "optimizeWithOSRMOnly"
    ELSE "optimizeMultipleTrips"

\* the branch of optimizeWithOSRMAndVROOM after its own validation
ValidatedCallee(osrmAvailable, vroomAvailable) ==
    IF ~osrmAvailable THEN "optimizeMultipleTrips"
    ELSE IF ~vroomAvailable THEN "optimizeWithOSRMOnly"
    ELSE "optimizeWithVRoomAdvanced"

\* mutation: smartOptimize calls its optimizer outside the try block
HasTryInnerOnly(fn) == fn = "optimizeWithOSRMAndVROOM"

\* the functions whose body is a try block with a catch that recovers
HasTry(fn) == fn \in {"smartOptimize", "optimizeWithOSRMAndVROOM"}

Top(stack) == stack[Len(stack)]
Pop(stack) == SubSeq(stack, 1, Len(stack) - 1)

Returned(fn, fieldSet, algorithm, fallback) ==
    [state |-> "value", from |-> fn, fields |-> fieldSet, algorithm |-> algorithm,
     fallback |-> fallback]

Thrown(fn) ==
    [state |-> "error", from |-> fn, fields |-> {}, algorithm |-> Undefined,
     fallback |-> FALSE]

\* the object optimizeMultipleTrips returns
BasicResult ==
    Returned("optimizeMultipleTrips", {"results", "conflictResolution", "summary"},
             Undefined, FALSE)

\* the object optimizeWithOSRMOnly returns
OSRMOnlyResult ==
    Returned("optimizeWithOSRMOnly",
             {"results", "vehicleAssignments", "summary", "algorithm", "routingData",
              "realWorldRouting"},
             "OSRM-Enhanced Greedy", FALSE)

\* convertFromVROOMSolution, spread into the result of optimizeWithVRoomAdvanced
convertFromVROOMSolution ==
    Returned("optimizeWithVRoomAdvanced",
             {"results", "summary", "algorithm", "optimizationMethod", "routingData",
              "vroomResult", "constraints"},
             "VROOM VRP Solver", FALSE)

\* fallbackVRPSolver, spread into the result of optimizeWithVRoomAdvanced
fallbackVRPSolver ==
    Returned("optimizeWithVRoomAdvanced",
             {"results", "summary", "algorithm", "fallback", "optimizationMethod",
              "routingData", "vroomOffline", "constraints"},
             "Fallback VRP (Greedy + 2-opt)", TRUE)

\* what a caller does with the value its callee returned
Continue(fn, inCatch, value) ==
    IF fn = "optimizeWithOSRMAndVROOM" /\ inCatch
    THEN Returned(fn, value.fields \cup {"algorithm", "error", "fallback",
                                         "computationTime"},
                  "Fallback: Basic Greedy", TRUE)
    ELSE IF fn = "optimizeWithOSRMAndVROOM" /\ value.from = "optimizeWithVRoomAdvanced"
    THEN Returned(fn, value.fields \cup {"algorithm", "computationTime", "serviceStatus",
                                         "optimizationQuality", "realWorldRouting",
                                         "stateOfTheArt"},
                  "OSRM + VROOM Integration", value.fallback)
    ELSE [value EXCEPT !.from = fn]

\* smartOptimize, line 2604
SmartProbe ==
    /\ tier = <<>>
    /\ smartResult.state = "none"
    /\ \E osrmAvailable \in BOOLEAN, vroomAvailable \in BOOLEAN :
           /\ osrmUp' = osrmAvailable
           /\ vroomUp' = vroomAvailable
           /\ serviceStatus' = getOptimizationServiceStatus(osrmAvailable, vroomAvailable)
    /\ tier' = <<"smartOptimize">>
    /\ UNCHANGED <<callVars, batchVars, pc, returnVars, caught, smartResult>>

\* smartOptimize, lines 2612-2622
SmartDispatch ==
    /\ tier = <<"smartOptimize">>
    /\ "smartOptimize" \notin caught
    /\ smartResult.state = "none"
    /\ tier' = Append(tier, SmartCallee(serviceStatus))
    /\ pc' = IF SmartCallee(serviceStatus) = "optimizeMultipleTrips" THEN "start" ELSE pc
    /\ UNCHANGED <<callVars, batchVars, returnVars, osrmUp, vroomUp, serviceStatus, caught,
                   smartResult>>

\* optimizeWithOSRMAndVROOM, lines 2269-2285: the providers are probed again
ValidateServices ==
    /\ tier # <<>>
    /\ Top(tier) = "optimizeWithOSRMAndVROOM"
    /\ Top(tier) \notin caught
    /\ smartResult.state = "none"
    /\ \E osrmAvailable \in BOOLEAN, vroomAvailable \in BOOLEAN :
           /\ osrmUp' = osrmAvailable
           /\ vroomUp' = vroomAvailable
           /\ tier' = Append(tier, ValidatedCallee(osrmAvailable, vroomAvailable))
           /\ pc' = IF ValidatedCallee(osrmAvailable, vroomAvailable) = "optimizeMultipleTrips"
                    THEN "start" ELSE pc
    /\ UNCHANGED <<callVars, batchVars, returnVars, serviceStatus, caught, smartResult>>

\* optimizeWithOSRMOnly: the matrix request falls back to local distances
\* when the Router does not answer; a failed load of the geocoding module
\* is rethrown
RunOSRMOnly ==
    /\ tier # <<>>
    /\ Top(tier) = "optimizeWithOSRMOnly"
    /\ smartResult.state = "none"
    /\ \E moduleLoads \in BOOLEAN, osrmAnswers \in BOOLEAN :
           /\ osrmUp' = IF moduleLoads THEN osrmAnswers ELSE osrmUp
           /\ smartResult' = IF moduleLoads THEN OSRMOnlyResult
                              ELSE Thrown("optimizeWithOSRMOnly")
    /\ tier' = Pop(tier)
    /\ UNCHANGED <<callVars, batchVars, pc, returnVars, vroomUp, serviceStatus, caught>>

\* the names bound at a line of convertToVROOMFormat: uniqueAddresses is
\* declared by const inside the else block of lines 735-748 and bound only there
BoundAt(line) ==
    {"trips", "vehicles", "distanceMatrix", "durationMatrix", "coordinates",
     "routingData", "timeWindowConfig", "config", "addressToIndex"}
        \cup (IF line >= 735 /\ line <= 748 THEN {"allAddresses", "uniqueAddresses"} ELSE {})
        \cup (IF line >= 976 THEN {"vroomVehicles", "vroomShipments"} ELSE {})

\* convertToVROOMFormat, line 979: Math.max(coordinates.length,
\* uniqueAddresses.length) reads a name that is not bound there, which
\* throws ReferenceError; the catch of lines 1007-1010 rethrows
convertToVROOMFormatThrows ==
    ~({"coordinates", "uniqueAddresses"} \subseteq BoundAt(979))

\* optimizeWithVRoomAdvanced: the Solver is asked only when the problem
\* could be built, and its solution is returned when it answers; in every
\* other case of step 3 the local solver runs; a failed load of the routing
\* module is rethrown
RunVRoomAdvanced ==
    /\ tier # <<>>
    /\ Top(tier) = "optimizeWithVRoomAdvanced"
    /\ smartResult.state = "none"
    /\ \E moduleLoads \in BOOLEAN, osrmAnswers \in BOOLEAN, vroomAnswers \in BOOLEAN :
           \E solverAsked \in {moduleLoads /\ ~convertToVROOMFormatThrows} :
               /\ osrmUp' = IF moduleLoads THEN osrmAnswers ELSE osrmUp
               /\ vroomUp' = IF solverAsked THEN vroomAnswers ELSE vroomUp
               /\ smartResult' = IF ~moduleLoads THEN Thrown("optimizeWithVRoomAdvanced")
                                  ELSE IF solverAsked /\ vroomAnswers
                                  THEN convertFromVROOMSolution
                                  ELSE fallbackVRPSolver
    /\ tier' = Pop(tier)
    /\ UNCHANGED <<callVars, batchVars, pc, returnVars, serviceStatus, caught>>

\* optimizeMultipleTrips returns to its caller
BatchReturned ==
    /\ tier # <<>>
    /\ Top(tier) = "optimizeMultipleTrips"
    /\ pc = "done"
    /\ smartResult' = BasicResult
    /\ tier' = Pop(tier)
    /\ pc' = "idle"
    /\ UNCHANGED <<callVars, batchVars, returnVars, osrmUp, vroomUp, serviceStatus, caught>>

\* optimizeMultipleTrips throws to its caller
BatchThrew ==
    /\ tier # <<>>
    /\ Top(tier) = "optimizeMultipleTrips"
    /\ pc = "thrown"
    /\ smartResult' = Thrown("optimizeMultipleTrips")
    /\ tier' = Pop(tier)
    /\ pc' = "idle"
    /\ UNCHANGED <<callVars, batchVars, returnVars, osrmUp, vroomUp, serviceStatus, caught>>

\* a caller returns what its callee returned (lines 2276, 2281, 2303-2314,
\* 2323-2329, 2614-2621, 2629)
FrameReturns ==
    /\ tier # <<>>
    /\ smartResult.state = "value"
    /\ smartResult' = Continue(Top(tier), Top(tier) \in caught, smartResult)
    /\ caught' = caught \ {Top(tier)}
    /\ tier' = Pop(tier)
    /\ UNCHANGED <<callVars, batchVars, pc, returnVars, osrmUp, vroomUp, serviceStatus>>

\* an error reaches a caller: its catch block runs optimizeMultipleTrips
\* (lines 2316-2321, 2624-2629)
FrameCatches ==
    /\ tier # <<>>
    /\ smartResult.state = "error"
    /\ HasTry(Top(tier))
    /\ Top(tier) \notin caught
    /\ caught' = caught \cup {Top(tier)}
    /\ tier' = Append(tier, "optimizeMultipleTrips")
    /\ smartResult' = NoCompletion
    /\ pc' = "start"
    /\ UNCHANGED <<callVars, batchVars, returnVars, osrmUp, vroomUp, serviceStatus>>

\* an error raised inside a catch block leaves the function
FrameThrows ==
    /\ tier # <<>>
    /\ smartResult.state = "error"
    /\ ~(HasTry(Top(tier)) /\ Top(tier) \notin caught)
    /\ smartResult' = Thrown(Top(tier))
    /\ caught' = caught \ {Top(tier)}
    /\ tier' = Pop(tier)
    /\ UNCHANGED <<callVars, batchVars, pc, returnVars, osrmUp, vroomUp, serviceStatus>>

\* the fleets the optimization tests hand to smartOptimize: no trips yet
FreshFleets ==
    {fleet \in Fleets : \A i \in 1..Len(fleet) : fleet[i].trips = <<>>}

InitSmart ==
    /\ trips \in TripLists
    /\ vehicles \in FreshFleets
    /\ sortedTrips = <<>>
    /\ pos = 1
    /\ vehicleAssignments = <<>>
    /\ unresolvableConflicts = <<>>
    /\ results = <<>>
    /\ assignment = NoAssignment
    /\ attempts = <<>>
    /\ pc = "idle"
    /\ ReturnIdle
    /\ SmartIdle
    /\ CallIdle

NextSmart ==
    \/ SmartProbe
    \/ SmartDispatch
    \/ ValidateServices
    \/ RunOSRMOnly
    \/ RunVRoomAdvanced
    \/ BatchStart
    \/ Pass1Step
    \/ Pass2Step
    \/ BatchReturn
    \/ BatchReturned
    \/ BatchThrew
    \/ FrameReturns
    \/ FrameCatches
    \/ FrameThrows

SpecSmart == InitSmart /\ [][NextSmart]_vars

(***************************************************************************)
(* Local solver: fallbackVRPSolver and its interval conflict test          *)
(***************************************************************************)
\* the configuration fallbackVRPSolver uses when it is given none
DefaultTimeWindowConfig ==
    [bufferBetweenAppointments |-> 20, bufferBetweenReturns |-> 10, bufferMixed |-> 15,
     allowConflictPenalty |-> TRUE, conflictPenaltyScore |-> 50,
     minAssignmentScore |-> 15]

\* timeToMinutes: "HH:MM" -> minutes since midnight, 0 when absent
timeToMinutes(timeStr) ==
    IF timeStr = NoTime THEN 0 ELSE timeStr[1] * 60 + timeStr[2]

Min2(a, b) == IF a <= b THEN a ELSE b

NoBounds == [known |-> FALSE, startTime |-> 0, endTime |-> 0, type |-> "none"]

\* getTimeBounds: the interval a trip occupies, clamped to 06:00-22:00
getTimeBounds(trip) ==
    LET Clamped(startTime, endTime) ==
            [known |-> TRUE, startTime |-> Max2(6 * 60, startTime),
             endTime |-> Min2(22 * 60, endTime),
             type |-> IF trip.isReturnTrip THEN "return" ELSE "appointment"]
    IN  IF trip.isReturnTrip
        THEN IF trip.earliestPickupTime # NoTime
             THEN Clamped(timeToMinutes(trip.earliestPickupTime),
                          timeToMinutes(trip.earliestPickupTime) + 60)
             ELSE NoBounds
        ELSE IF trip.appointmentTime # NoTime
        THEN Clamped(timeToMinutes(trip.appointmentTime) - 30,
                     timeToMinutes(trip.appointmentTime)
                         + (IF trip.duration # 0 THEN trip.duration ELSE 60) + 30)
        ELSE IF trip.pickupTime # NoTime
        THEN Clamped(timeToMinutes(trip.pickupTime), timeToMinutes(trip.pickupTime) + 90)
        ELSE NoBounds

\* mutation: the buffer is added to the end of the second interval only
checkTimeOverlapOneSidedBuffer(time1, time2, config) ==
    LET bufferMinutes ==
            IF time1.type = "appointment" /\ time2.type = "appointment"
            THEN config.bufferBetweenAppointments
            ELSE IF time1.type = "return" /\ time2.type = "return"
            THEN config.bufferBetweenReturns
            ELSE config.bufferMixed
    IN  /\ time1.startTime < time2.endTime + bufferMinutes
        /\ time2.startTime < time1.endTime

\* checkTimeOverlap(time1, time2, config).hasOverlap
checkTimeOverlap(time1, time2, config) ==
    LET bufferMinutes ==
            IF time1.type = "appointment" /\ time2.type = "appointment"
            THEN config.bufferBetweenAppointments
            ELSE IF time1.type = "return" /\ time2.type = "return"
            THEN config.bufferBetweenReturns
            ELSE config.bufferMixed
    IN  /\ time1.startTime < time2.endTime + bufferMinutes
        /\ time2.startTime < time1.endTime + bufferMinutes

\* checkTimeConflicts(newTrip, existingTrips, config).hasConflict
checkTimeConflicts(newTrip, existingTrips, config) ==
    /\ Len(existingTrips) # 0
    /\ getTimeBounds(newTrip).known
    /\ \E k \in 1..Len(existingTrips) :
           /\ getTimeBounds(existingTrips[k]).known
           /\ checkTimeOverlap(getTimeBounds(newTrip), getTimeBounds(existingTrips[k]),
                               config)

getVehicleTypeCompatibility(requiredType, vehicleType) ==
    CASE requiredType = "Ambulance" /\ vehicleType = "Ambulance" -> 100
      [] requiredType = "Ambulance" /\ vehicleType = "VSL" -> 30
      [] requiredType = "Ambulance" /\ vehicleType = "Taxi" -> 10
      [] requiredType = "VSL" /\ vehicleType = "Ambulance" -> 80
      [] requiredType = "VSL" /\ vehicleType = "VSL" -> 100
      [] requiredType = "VSL" /\ vehicleType = "Taxi" -> 50
      [] requiredType = "Taxi" /\ vehicleType = "Ambulance" -> 90
      [] requiredType = "Taxi" /\ vehicleType = "VSL" -> 80
      [] requiredType = "Taxi" /\ vehicleType = "Taxi" -> 100
      [] OTHER -> 50

getVehicleSkills(vehicle) ==
    CASE vehicle.type = "Ambulance" -> {1, 2, 3}
      [] vehicle.type = "VSL" -> {2, 3}
      [] vehicle.type = "Taxi" -> {3}
      [] OTHER -> {}

getTripRequiredSkills(trip) ==
    CASE trip.vehicleType = "Ambulance" -> {1}
      [] trip.vehicleType = "VSL" -> {1, 2}
      [] OTHER -> {1, 2, 3}

\* calculateTripAssignmentScore on the metrics of calculateRouteMetrics, in
\* hundredths: additionalDistance is 10 * (1 + 0.1 * currentTripCount)
calculateTripAssignmentScore(trip, vehicle, currentTripCount) ==
    getVehicleTypeCompatibility(trip.vehicleType, vehicle.type) * 50
        + Max2(0, 100 - currentTripCount * 15) * 30
        + Max2(0, 100 - (10 + currentTripCount) * 2) * 20

\* a JavaScript number in tenths of a unit: a finite value, NaN, or the
\* undefined a missing property reads as
Num(v) == [kind |-> "number", value |-> v]

NaN == [kind |-> "NaN", value |-> 0]

UndefinedNumber == [kind |-> "undefined", value |-> 0]

\* a + b, as += computes it
Plus(a, b) ==
    IF a.kind = "number" /\ b.kind = "number" THEN Num(a.value + b.value) ELSE NaN

\* Number.isFinite
isFinite(a) == a.kind = "number"

\* calculateRouteMetrics: 10 km and 30 min, each times 1 + 0.1 per trip the
\* vehicle already has
calculateRouteMetrics(currentTripCount) ==
    [additionalDistance |-> Num(100 + 10 * currentTripCount),
     additionalDuration |-> Num(300 + 30 * currentTripCount)]

\* bestMetrics of an assignment kept despite a conflict,
\* { distance: 50, duration: 90, score }, read by the names additionalDistance
\* and additionalDuration
ConflictedMetrics ==
    [additionalDistance |-> UndefinedNumber, additionalDuration |-> UndefinedNumber]

\* timeWindowConfig?.allowConflictPenalty
conflictPenaltyAllowed(config) == config.allowConflictPenalty

\* mutation: the first vehicle in service is taken, whatever its type
findBestVehicleForTripAnyType(trip, vehicleList, va, config) ==
    LET inService == {id \in 1..Len(vehicleList) :
                         vehicleList[id].status # "maintenance"}
    IN  IF inService = {}
        THEN [success |-> FALSE, vehicleId |-> 0, score |-> 0,
              additionalDistance |-> UndefinedNumber,
              additionalDuration |-> UndefinedNumber]
        ELSE [success |-> TRUE,
              vehicleId |-> CHOOSE id \in inService : \A other \in inService : id <= other,
              score |-> 50,
              additionalDistance |-> Num(100), additionalDuration |-> Num(300)]

\* findBestVehicleForTrip: the loop over the vehicles that have an entry, in
\* insertion order; scores in hundredths
findBestVehicleForTrip(trip, vehicleList, va, config) ==
    LET Consider(best, id) ==
            LET vehicle == vehicleList[id]
                vehicleTypeScore ==
                    getVehicleTypeCompatibility(trip.vehicleType, vehicle.type)
                adjustedScore == (vehicleTypeScore - config.conflictPenaltyScore) * 100
                score == calculateTripAssignmentScore(trip, vehicle, Len(va[id]))
            IN  IF vehicle.status = "maintenance" THEN best
                ELSE IF vehicleTypeScore < 50 THEN best
                ELSE IF getTripRequiredSkills(trip) \cap getVehicleSkills(vehicle) = {}
                THEN best
                ELSE IF checkTimeConflicts(trip, va[id], config)
                THEN IF /\ conflictPenaltyAllowed(config)
                        /\ adjustedScore > best.score
                        /\ adjustedScore > config.minAssignmentScore * 100
                     THEN [vehicleId |-> id, score |-> adjustedScore,
                           metrics |-> ConflictedMetrics]
                     ELSE best
                ELSE IF score > best.score
                THEN [vehicleId |-> id, score |-> score,
                      metrics |-> calculateRouteMetrics(Len(va[id]))]
                ELSE best
        after[k \in 0..Len(vehicleList)] ==
            IF k = 0 THEN [vehicleId |-> 0, score |-> -100, metrics |-> ConflictedMetrics]
            ELSE Consider(after[k - 1], k)
        best == after[Len(vehicleList)]
    IN  IF best.vehicleId # 0 /\ best.score > 15 * 100
        THEN [success |-> TRUE, vehicleId |-> best.vehicleId,
              score |-> RoundDiv(best.score, 100),
              additionalDistance |-> best.metrics.additionalDistance,
              additionalDuration |-> best.metrics.additionalDuration]
        ELSE [success |-> FALSE, vehicleId |-> 0, score |-> 0,
              additionalDistance |-> UndefinedNumber,
              additionalDuration |-> UndefinedNumber]

\* appointmentTime || pickupTime || time || '09:00'
FallbackTripTime(trip) ==
    IF trip.appointmentTime # NoTime THEN trip.appointmentTime
    ELSE IF trip.pickupTime # NoTime THEN trip.pickupTime
    ELSE DefaultTime

\* the comparator of the sort in fallbackVRPSolver
FallbackTripBefore(a, b) ==
    LET priorityDiff == priorityOrder(b.priority) - priorityOrder(a.priority)
        typeScoreA == IF a.isReturnTrip THEN 1 ELSE 2
        typeScoreB == IF b.isReturnTrip THEN 1 ELSE 2
    IN  IF priorityDiff # 0 THEN priorityDiff < 0
        ELSE IF typeScoreA # typeScoreB THEN typeScoreB - typeScoreA < 0
        ELSE localeCompare(FallbackTripTime(a), FallbackTripTime(b)) < 0

\* newTrips of apply2OptImprovement: the segment i..j (0-based) reversed
TwoOptSwap(route, i, j) ==
    [p \in 1..Len(route) |->
        IF p >= i + 1 /\ p <= j + 1 THEN route[(i + 1) + (j + 1) - p] ELSE route[p]]

\* values of Math.random() * 5, in tenths of a kilometre
RandomTerms == {0, 20, 40, 48}

\* calculateRouteDistance: trips.length * 10 + Math.random() * 5
calculateRouteDistance(route, random) == Len(route) * 100 + random

\* what apply2OptImprovement can return: a reversal is kept when its distance
\* is below the best one so far, and the two differ by their random terms
\* alone, so any reversal can be kept with any term another draw exceeds
apply2OptImprovement(route) ==
    IF Len(route) <= 2
    THEN {[improved |-> FALSE, trips |-> route,
           totalDistance |-> Num(0), totalDuration |-> Num(0)]}
    ELSE {[improved |-> FALSE, trips |-> route,
           totalDistance |-> Num(calculateRouteDistance(route, random)),
           totalDuration |-> Num((calculateRouteDistance(route, random) * 60) \div 40)] :
             random \in RandomTerms}
         \cup
         UNION {{[improved |-> TRUE, trips |-> TwoOptSwap(route, i, j),
                  totalDistance |-> Num(calculateRouteDistance(route, random)),
                  totalDuration |->
                      Num((calculateRouteDistance(route, random) * 60) \div 40)] :
                    j \in (i + 1)..(Len(route) - 1)} :
                  i \in 1..(Len(route) - 2),
                  random \in {r \in RandomTerms : \E before \in RandomTerms : r < before}}

(***************************************************************************)
(* Specification of one run of fallbackVRPSolver                           *)
(***************************************************************************)
\* courses after ingestion and return generation: appointments, returns,
\* a trip with a pickup time only and a trip without any time
FallbackTripTemplates ==
    {[appointmentTime |-> <<9, 0>>, duration |-> 0, isReturnTrip |-> FALSE,
      earliestPickupTime |-> NoTime, pickupTime |-> NoTime, vehicleType |-> "VSL"],
     [appointmentTime |-> <<10, 0>>, duration |-> 45, isReturnTrip |-> FALSE,
      earliestPickupTime |-> NoTime, pickupTime |-> NoTime, vehicleType |-> "VSL"],
     [appointmentTime |-> <<14, 0>>, duration |-> 45, isReturnTrip |-> FALSE,
      earliestPickupTime |-> NoTime, pickupTime |-> NoTime, vehicleType |-> "Ambulance"],
     [appointmentTime |-> <<10, 45>>, duration |-> 30, isReturnTrip |-> TRUE,
      earliestPickupTime |-> <<11, 0>>, pickupTime |-> NoTime, vehicleType |-> "VSL"],
     [appointmentTime |-> <<15, 0>>, duration |-> 30, isReturnTrip |-> TRUE,
      earliestPickupTime |-> NoTime, pickupTime |-> NoTime, vehicleType |-> "VSL"],
     [appointmentTime |-> NoTime, duration |-> 0, isReturnTrip |-> FALSE,
      earliestPickupTime |-> NoTime, pickupTime |-> <<9, 15>>, vehicleType |-> "VSL"],
     [appointmentTime |-> NoTime, duration |-> 0, isReturnTrip |-> FALSE,
      earliestPickupTime |-> NoTime, pickupTime |-> NoTime, vehicleType |-> "VSL"]}

MakeFallbackTrip(id, tpl) ==
    [id |-> id, patient |-> "Mme Dupont", pickup |-> "Hyères",
     destination |-> "CHU Toulon", appointmentTime |-> tpl.appointmentTime,
     duration |-> tpl.duration, isReturnTrip |-> tpl.isReturnTrip,
     earliestPickupTime |-> tpl.earliestPickupTime, pickupTime |-> tpl.pickupTime,
     vehicleType |-> tpl.vehicleType, priority |-> "normal"]

FallbackTripLists ==
    UNION { { [i \in 1..n |-> MakeFallbackTrip(i, f[i])] :
                f \in [1..n -> FallbackTripTemplates] }
            : n \in 0..MaxFallbackTrips }

InitFallback ==
    /\ trips \in FallbackTripLists
    /\ vehicles \in FreshFleets
    /\ sortedTrips = <<>>
    /\ pos = 1
    /\ vehicleAssignments = <<>>
    /\ unresolvableConflicts = <<>>
    /\ results = <<>>
    /\ assignment = NoAssignment
    /\ attempts = <<>>
    /\ pc = "fallback"
    /\ ReturnIdle
    /\ SmartIdle
    /\ CallIdle

\* lines 1493-1526: empty routes, sorted trips
FallbackStart ==
    /\ pc = "fallback"
    /\ vehicleAssignments' = [id \in 1..Len(vehicles) |-> <<>>]
    /\ sortedTrips' = SortBy(trips, FallbackTripBefore)
    /\ pos' = 1
    /\ results' = <<>>
    /\ totals' = [id \in 1..Len(vehicles) |->
                      [totalDistance |-> Num(0), totalDuration |-> Num(0)]]
    /\ pc' = "greedy"
    /\ UNCHANGED <<coordinates, serverUrls, response, suspended, appVars, trips, vehicles, unresolvableConflicts, assignment, attempts,
                   returnVars, smartVars>>

\* lines 1537-1596: one iteration of the greedy loop
FallbackAssign ==
    /\ pc = "greedy"
    /\ pos <= Len(sortedTrips)
    /\ \E found \in {findBestVehicleForTrip(sortedTrips[pos], vehicles,
                                             vehicleAssignments,
                                             DefaultTimeWindowConfig)} :
           /\ vehicleAssignments' =
                  IF found.success
                  THEN [vehicleAssignments EXCEPT ![found.vehicleId] =
                            Append(@, sortedTrips[pos])]
                  ELSE vehicleAssignments
           /\ totals' =
                  IF found.success
                  THEN [totals EXCEPT ![found.vehicleId] =
                            [totalDistance |-> Plus(@.totalDistance,
                                                    found.additionalDistance),
                             totalDuration |-> Plus(@.totalDuration,
                                                    found.additionalDuration)]]
                  ELSE totals
           /\ results' = Append(results,
                                [trip |-> sortedTrips[pos],
                                 status |-> IF found.success THEN "assigned"
                                            ELSE "unassigned",
                                 vehicle |-> found.vehicleId, score |-> found.score,
                                 totalDistance |-> found.additionalDistance])
    /\ pos' = pos + 1
    /\ UNCHANGED <<coordinates, serverUrls, response, suspended, appVars, trips, vehicles, sortedTrips, unresolvableConflicts, assignment,
                   attempts, pc, returnVars, smartVars>>

\* what the calls of apply2OptImprovement of one pass can return, one for
\* every entry of vehicleAssignments
ImprovedRoutes(va) ==
    LET upTo[k \in 0..Len(va)] ==
            IF k = 0 THEN {<<>>}
            ELSE {Append(before, outcome) :
                    before \in upTo[k - 1], outcome \in apply2OptImprovement(va[k])}
    IN  upTo[Len(va)]

\* lines 1598-1614: 2-opt on every route of more than two trips
FallbackImprove ==
    /\ pc = "greedy"
    /\ pos > Len(sortedTrips)
    /\ \E improvedRoute \in ImprovedRoutes(vehicleAssignments) :
           /\ vehicleAssignments' =
                  [id \in 1..Len(vehicles) |->
                      IF Len(vehicleAssignments[id]) > 2 /\ improvedRoute[id].improved
                      THEN improvedRoute[id].trips
                      ELSE vehicleAssignments[id]]
           /\ totals' =
                  [id \in 1..Len(vehicles) |->
                      IF Len(vehicleAssignments[id]) > 2 /\ improvedRoute[id].improved
                      THEN [totalDistance |-> improvedRoute[id].totalDistance,
                            totalDuration |-> improvedRoute[id].totalDuration]
                      ELSE totals[id]]
    /\ pc' = "improved"
    /\ UNCHANGED <<coordinates, serverUrls, response, suspended, appVars, trips, vehicles, sortedTrips, pos, unresolvableConflicts, results,
                   assignment, attempts, returnVars, smartVars>>

\* Math.round of a number in tenths, to a whole unit
MathRound(a) == IF a.kind = "number" THEN Num(RoundDiv(a.value, 10) * 10) ELSE NaN

\* Math.round(x * 10) / 10 of a number in tenths
RoundToTenth(a) == IF a.kind = "number" THEN a ELSE NaN

\* the reduce over vehicleAssignments.values(), from the sum 0
SumOfTotals(entries, field) ==
    LET sum[k \in 0..Len(entries)] ==
            IF k = 0 THEN Num(0) ELSE Plus(sum[k - 1], entries[k][field])
    IN  sum[Len(entries)]

\* summary.totalDistance and summary.totalDuration of the value returned
summary ==
    [totalDistance |-> RoundToTenth(SumOfTotals(totals, "totalDistance")),
     totalDuration |-> MathRound(SumOfTotals(totals, "totalDuration"))]

\* lines 1617-1694: summary and return
FallbackReturn ==
    /\ pc = "improved"
    /\ pc' = "solved"
    /\ UNCHANGED <<callVars, batchVars, returnVars, smartVars>>

NextFallback ==
    \/ FallbackStart
    \/ FallbackAssign
    \/ FallbackImprove
    \/ FallbackReturn

SpecFallback == InitFallback /\ [][NextFallback]_vars

\* the same solver on trips and vehicles of the three types
InitFallbackTypes ==
    /\ trips \in UNION { { [i \in 1..n |->
                               MakeFallbackTrip(i,
                                   [appointmentTime |-> <<8 + i, 0>>, duration |-> 0,
                                    isReturnTrip |-> FALSE, earliestPickupTime |-> NoTime,
                                    pickupTime |-> NoTime, vehicleType |-> f[i]])] :
                           f \in [1..n -> {"Ambulance", "VSL", "Taxi"}] }
                         : n \in 0..MaxFallbackTrips }
    /\ vehicles \in UNION { { [i \in 1..n |-> MakeVehicle(i, f[i], FALSE)] :
                              f \in [1..n -> [type : {"Ambulance", "VSL", "Taxi"},
                                              status : VehicleStatuses]] }
                            : n \in 0..MaxVehicles }
    /\ sortedTrips = <<>>
    /\ pos = 1
    /\ vehicleAssignments = <<>>
    /\ unresolvableConflicts = <<>>
    /\ results = <<>>
    /\ assignment = NoAssignment
    /\ attempts = <<>>
    /\ pc = "fallback"
    /\ ReturnIdle
    /\ SmartIdle
    /\ CallIdle

SpecFallbackTypes == InitFallbackTypes /\ [][NextFallback]_vars

(***************************************************************************)
(* smartOptimize with the results list of every optimizer it can reach     *)
(***************************************************************************)
\* the comparator of the sort in optimizeWithOSRMOnly: priority alone
PriorityBefore(a, b) == priorityOrder(b.priority) - priorityOrder(a.priority) < 0

\* what batchGeocodingAndRouting can hand back for the addresses of a run:
\* whether the addresses are listed, and the scores the matrices lead to
RoutingData ==
    {[located |-> FALSE, distanceScore |-> 0, timeScore |-> 0],
     [located |-> TRUE, distanceScore |-> 0, timeScore |-> 0],
     [located |-> TRUE, distanceScore |-> 100, timeScore |-> 100]}

\* findBestVehicleWithOSRM: scores in tenths; the first best vehicle among
\* those available or busy, accepted above 30
findBestVehicleWithOSRM(trip, vehicleList, routingData) ==
    LET Consider(best, id) ==
            LET vehicle == vehicleList[id]
                finalScore == 4 * getVehicleTypeScore(trip.vehicleType, vehicle.type)
                              + 3 * routingData.distanceScore
                              + 2 * routingData.timeScore
                              + getPriorityScore(trip.priority)
            IN  IF vehicle.status \notin {"available", "busy"} THEN best
                ELSE IF ~routingData.located THEN best
                ELSE IF finalScore > best.score
                THEN [vehicleId |-> id, score |-> finalScore]
                ELSE best
        after[k \in 0..Len(vehicleList)] ==
            IF k = 0 THEN [vehicleId |-> 0, score |-> -10]
            ELSE Consider(after[k - 1], k)
        best == after[Len(vehicleList)]
    IN  IF best.vehicleId # 0 /\ best.score > 300
        THEN [success |-> TRUE, vehicleId |-> best.vehicleId,
              score |-> RoundDiv(best.score, 10)]
        ELSE [success |-> FALSE, vehicleId |-> 0, score |-> 0]

\* mutation: a trip without a suitable vehicle gets no entry
osrmOnlyLoopAssignedOnly(sorted, vehicleList, routingData) ==
    LET after[k \in 0..Len(sorted)] ==
            IF k = 0 THEN <<>>
            ELSE LET found == findBestVehicleWithOSRM(sorted[k], vehicleList, routingData)
                 IN  IF found.success
                     THEN Append(after[k - 1],
                                 AssignedResult(sorted[k], found.vehicleId, found.score,
                                                "none"))
                     ELSE after[k - 1]
    IN  [results |-> after[Len(sorted)],
         va |-> [id \in 1..Len(vehicleList) |-> vehicleList[id].trips]]

\* the loop of optimizeWithOSRMOnly over the sorted trips: the results and
\* the trips of each vehicle
osrmOnlyLoop(sorted, vehicleList, routingData) ==
    LET after[k \in 0..Len(sorted)] ==
            IF k = 0
            THEN [results |-> <<>>,
                  va |-> [id \in 1..Len(vehicleList) |-> vehicleList[id].trips]]
            ELSE LET found == findBestVehicleWithOSRM(sorted[k], vehicleList, routingData)
                     before == after[k - 1]
                 IN  IF found.success
                     THEN [results |-> Append(before.results,
                                          AssignedResult(sorted[k], found.vehicleId,
                                                         found.score, "none")),
                           va |-> [before.va EXCEPT ![found.vehicleId] =
                                       Append(@, sorted[k])]]
                     ELSE [results |-> Append(before.results, UnassignedResult(sorted[k])),
                           va |-> before.va]
    IN  after[Len(sorted)]

\* what the Solver can report for a trip: a step of type 'job', the steps
\* of a shipment, or an entry of its unassigned list
Dispositions == {"job", "shipment", "unassigned"}

\* the results of convertFromVROOMSolution: one entry for every step of
\* type 'job', then one for every entry of the unassigned list
convertFromVROOMResults(tripList, disposition) ==
    LET Entries(kind, result(_)) ==
            LET after[k \in 0..Len(tripList)] ==
                    IF k = 0 THEN <<>>
                    ELSE IF disposition[k] = kind
                    THEN Append(after[k - 1], result(tripList[k]))
                    ELSE after[k - 1]
            IN  after[Len(tripList)]
        Job(trip) == AssignedResult(trip, 1, 100, "none")
    IN  Entries("job", Job) \o Entries("unassigned", UnassignedResult)

\* a trip as the optimization tests pass it to smartOptimize: the fields of
\* the batch optimizer, and the fields the local solver reads absent
MakeSmartTrip(id, tpl) ==
    [id |-> id, patient |-> tpl.patient, pickup |-> tpl.pickup,
     destination |-> tpl.destination, pickupTime |-> tpl.pickupTime,
     time |-> NoTime, vehicleType |-> tpl.vehicleType, priority |-> tpl.priority,
     appointmentTime |-> NoTime, duration |-> 0, isReturnTrip |-> FALSE,
     earliestPickupTime |-> NoTime]

\* the 09:00 trips of the batch optimizer and one that asks for a VSL
SmartTripTemplates ==
    {tpl \in TripTemplates : tpl.pickupTime = <<9, 0>>} \cup
        {[patient |-> "Mme Dupont", pickup |-> "CHU Toulon", destination |-> "Hyères",
          pickupTime |-> <<9, 0>>, vehicleType |-> "VSL", priority |-> "normal"]}

SmartTripLists ==
    UNION { { [i \in 1..n |-> MakeSmartTrip(i, f[i])] :
                f \in [1..n -> SmartTripTemplates] }
            : n \in 0..MaxTrips }

\* optimizeWithOSRMOnly, lines 2341-2456
TierOSRMOnly ==
    /\ tier # <<>>
    /\ Top(tier) = "optimizeWithOSRMOnly"
    /\ smartResult.state = "none"
    /\ \E moduleLoads \in BOOLEAN, osrmAnswers \in BOOLEAN, routingData \in RoutingData :
           /\ osrmUp' = IF moduleLoads THEN osrmAnswers ELSE osrmUp
           /\ smartResult' = IF moduleLoads THEN OSRMOnlyResult
                              ELSE Thrown("optimizeWithOSRMOnly")
           /\ IF moduleLoads
              THEN \E sorted \in {SortBy(trips, PriorityBefore)} :
                   \E run \in {osrmOnlyLoop(sorted, vehicles, routingData)} :
                       /\ sortedTrips' = sorted
                       /\ results' = run.results
                       /\ vehicleAssignments' = run.va
              ELSE UNCHANGED <<sortedTrips, results, vehicleAssignments>>
    /\ tier' = Pop(tier)
    /\ UNCHANGED <<callVars, trips, vehicles, pos, unresolvableConflicts, assignment,
                   attempts, pc, returnVars, vroomUp, serviceStatus, caught>>

\* optimizeWithVRoomAdvanced up to step 3, lines 1141-1330: the Solver's
\* solution is converted and returned, a failed load of the routing module
\* is rethrown, and in every other case the local solver is started
TierVRoomAdvanced ==
    /\ tier # <<>>
    /\ Top(tier) = "optimizeWithVRoomAdvanced"
    /\ smartResult.state = "none"
    /\ pc = "idle"
    /\ \E moduleLoads \in BOOLEAN, osrmAnswers \in BOOLEAN, vroomAnswers \in BOOLEAN :
           \E solverAsked \in {moduleLoads /\ ~convertToVROOMFormatThrows} :
               /\ osrmUp' = IF moduleLoads THEN osrmAnswers ELSE osrmUp
               /\ vroomUp' = IF solverAsked THEN vroomAnswers ELSE vroomUp
               /\ IF ~moduleLoads
                  THEN /\ smartResult' = Thrown("optimizeWithVRoomAdvanced")
                       /\ tier' = Pop(tier)
                       /\ UNCHANGED <<results, pc>>
                  ELSE IF solverAsked /\ vroomAnswers
                  THEN /\ smartResult' = convertFromVROOMSolution
                       /\ tier' = Pop(tier)
                       /\ \E disposition \in [1..Len(trips) -> Dispositions] :
                              results' = convertFromVROOMResults(trips, disposition)
                       /\ UNCHANGED pc
                  ELSE /\ pc' = "fallback"
                       /\ UNCHANGED <<smartResult, tier, results>>
    /\ UNCHANGED <<callVars, trips, vehicles, sortedTrips, pos, vehicleAssignments,
                   unresolvableConflicts, assignment, attempts, returnVars, serviceStatus,
                   caught>>

\* optimizeWithVRoomAdvanced, lines 1331-1347: the value of the local
\* solver is returned
TierFallbackReturned ==
    /\ tier # <<>>
    /\ Top(tier) = "optimizeWithVRoomAdvanced"
    /\ pc = "solved"
    /\ smartResult' = fallbackVRPSolver
    /\ tier' = Pop(tier)
    /\ pc' = "idle"
    /\ UNCHANGED <<callVars, batchVars, returnVars, osrmUp, vroomUp, serviceStatus, caught>>

InitTiers ==
    /\ trips \in SmartTripLists
    /\ vehicles \in FreshFleets
    /\ sortedTrips = <<>>
    /\ pos = 1
    /\ vehicleAssignments = <<>>
    /\ unresolvableConflicts = <<>>
    /\ results = <<>>
    /\ assignment = NoAssignment
    /\ attempts = <<>>
    /\ pc = "idle"
    /\ ReturnIdle
    /\ SmartIdle
    /\ CallIdle

NextTiers ==
    \/ SmartProbe
    \/ SmartDispatch
    \/ ValidateServices
    \/ TierOSRMOnly
    \/ TierVRoomAdvanced
    \/ FallbackStart
    \/ FallbackAssign
    \/ FallbackImprove
    \/ FallbackReturn
    \/ TierFallbackReturned
    \/ BatchStart
    \/ Pass1Step
    \/ Pass2Step
    \/ BatchReturn
    \/ BatchReturned
    \/ BatchThrew
    \/ FrameReturns
    \/ FrameCatches
    \/ FrameThrows

SpecTiers == InitTiers /\ [][NextTiers]_vars

(***************************************************************************)
(* checkTimeConflicts called for one trip against a list of one other trip *)
(***************************************************************************)
\* the trips of the local solver, and a return whose pickup opens inside the
\* buffer that follows a trip picked up at 09:15
ConflictTripTemplates ==
    FallbackTripTemplates \cup
        {[appointmentTime |-> <<9, 30>>, duration |-> 0, isReturnTrip |-> TRUE,
          earliestPickupTime |-> <<10, 50>>, pickupTime |-> NoTime,
          vehicleType |-> "VSL"]}

InitConflicts ==
    /\ trips \in { <<MakeFallbackTrip(1, a), MakeFallbackTrip(2, b)>> :
                       a \in ConflictTripTemplates, b \in ConflictTripTemplates }
    /\ vehicles = <<>>
    /\ sortedTrips = <<>>
    /\ pos = 1
    /\ vehicleAssignments = <<>>
    /\ unresolvableConflicts = <<>>
    /\ results = <<>>
    /\ assignment = NoAssignment
    /\ attempts = <<>>
    /\ pc = "conflicts"
    /\ ReturnIdle
    /\ SmartIdle
    /\ CallIdle

\* checkTimeConflicts(newTrip, [existingTrip], timeWindowConfig), for either
\* trip of the pair as the new one
CheckConflicts ==
    /\ pc = "conflicts"
    /\ \E i \in 1..2 :
           /\ \A k \in 1..Len(results) : results[k].newTrip # i
           /\ results' = Append(results,
                  [newTrip |-> i, existingTrip |-> 3 - i,
                   hasConflict |-> checkTimeConflicts(trips[i], <<trips[3 - i]>>,
                                                      DefaultTimeWindowConfig)])
    /\ UNCHANGED <<callVars, trips, vehicles, sortedTrips, pos, vehicleAssignments,
                   unresolvableConflicts, assignment, attempts, pc, returnVars,
                   smartVars>>

NextConflicts == CheckConflicts

SpecConflicts == InitConflicts /\ [][NextConflicts]_vars

(***************************************************************************)
(* resolveConflicts called on the working lists, then the application of   *)
(* the recommended strategy, as the second pass of the batch optimizer     *)
(* chains them.  The vehicles handed to the resolver carry the working     *)
(* lists themselves (line 1207), so a write of the resolver to a vehicle's *)
(* trips would show in vehicleAssignments.                                 *)
(***************************************************************************)
\* the three arguments of resolveConflicts, as the caller holds them
ResolverArguments ==
    [trip |-> trips[pos],
     vehicles |-> updatedVehicles(vehicles, vehicleAssignments),
     allTrips |-> trips]

InitResolve ==
    /\ trips \in TripLists
    /\ vehicles \in Fleets
    /\ vehicleAssignments = [id \in 1..Len(vehicles) |-> vehicles[id].trips]
    /\ sortedTrips = <<>>
    /\ pos = 1
    /\ unresolvableConflicts = <<>>
    /\ results = <<>>
    /\ assignment = NoAssignment
    /\ attempts = <<>>
    /\ pc = IF Len(trips) = 0 THEN "done" ELSE "resolve"
    /\ ReturnIdle
    /\ SmartIdle
    /\ CallIdle

\* mutation: suggestRescheduling writes each probed time into the existing
\* trip itself instead of a copy of it, which leaves the last slot, 17:00,
\* in every trip of the working lists that is not urgent
ResolveInPlace ==
    /\ pc = "resolve"
    /\ ~findNearbyTripsThrows(trips[pos], trips)
    /\ attempts' = Append(attempts,
           [tripId |-> trips[pos].id,
            arguments |-> ResolverArguments,
            strategies |-> resolveConflicts(ResolverArguments.trip,
                                            ResolverArguments.vehicles,
                                            ResolverArguments.allTrips)])
    /\ vehicleAssignments' =
           [id \in 1..Len(vehicles) |->
               [k \in 1..Len(vehicleAssignments[id]) |->
                   IF vehicleAssignments[id][k].priority = "urgent"
                   THEN vehicleAssignments[id][k]
                   ELSE [vehicleAssignments[id][k] EXCEPT !.pickupTime = <<17, 0>>,
                                                          !.time = <<17, 0>>]]]
    /\ pc' = "apply"
    /\ UNCHANGED <<callVars, trips, vehicles, sortedTrips, pos, unresolvableConflicts,
                   results, assignment, returnVars, smartVars>>

\* resolveConflicts, lines 826-875, and the generators it calls: every object
\* they derive from an argument is a copy (the spreads of lines 898 and 991,
\* filter at lines 992 and 1083-1093, the array literal of line 999), and the
\* arrays they sort or push to are their own
Resolve ==
    /\ pc = "resolve"
    /\ IF findNearbyTripsThrows(trips[pos], trips)
       THEN /\ pc' = "thrown"
            /\ UNCHANGED attempts
       ELSE /\ attempts' = Append(attempts,
                   [tripId |-> trips[pos].id,
                    arguments |-> ResolverArguments,
                    strategies |-> resolveConflicts(ResolverArguments.trip,
                                                    ResolverArguments.vehicles,
                                                    ResolverArguments.allTrips)])
            /\ pc' = "apply"
    /\ UNCHANGED <<callVars, trips, vehicles, sortedTrips, pos, vehicleAssignments,
                   unresolvableConflicts, results, assignment, returnVars, smartVars>>

\* lines 1212-1244: the recommended strategy is applied to the working lists
ApplyStrategy ==
    /\ pc = "apply"
    /\ \E strategies \in {attempts[Len(attempts)].strategies} :
           IF Len(strategies) > 0
           THEN \E resolved \in {applyResolutionStrategy(
                                     trips[pos], recommendedStrategy(strategies),
                                     updatedVehicles(vehicles, vehicleAssignments),
                                     vehicleAssignments)} :
                    /\ vehicleAssignments' = resolved.va
                    /\ results' =
                           IF resolved.success
                           THEN Append(results,
                                    AssignedResult(trips[pos], resolved.vehicle,
                                                   resolved.score,
                                                   recommendedStrategy(strategies).type))
                           ELSE reportUnassigned(results, trips[pos])
           ELSE /\ results' = reportUnassigned(results, trips[pos])
                /\ UNCHANGED vehicleAssignments
    /\ pos' = IF pos = Len(trips) THEN pos ELSE pos + 1
    /\ pc' = IF pos = Len(trips) THEN "done" ELSE "resolve"
    /\ UNCHANGED <<callVars, trips, vehicles, sortedTrips, unresolvableConflicts,
                   assignment, attempts, returnVars, smartVars>>

NextResolve ==
    \/ Resolve
    \/ ApplyStrategy

SpecResolve == InitResolve /\ [][NextResolve]_vars

(***************************************************************************)
(* Two runs of optimizeMultipleTrips on the same trips and vehicles.  One  *)
(* run executes; the other one is suspended at an await (every iteration   *)
(* of either pass awaits, lines 1177 and 1210), not yet called, or over.   *)
(* What a run owns is declared inside the function (lines 1148-1150, 1158) *)
(* and is swapped with the suspended run when control changes hands; the   *)
(* arguments trips and vehicles are the objects both runs were given.      *)
(***************************************************************************)
\* the locals of the run that executes
RunLocals ==
    [sortedTrips |-> sortedTrips, pos |-> pos,
     vehicleAssignments |-> vehicleAssignments,
     unresolvableConflicts |-> unresolvableConflicts, results |-> results,
     assignment |-> assignment, attempts |-> attempts, pc |-> pc]

\* a run that has not been called yet
FreshRun ==
    [sortedTrips |-> <<>>, pos |-> 1, vehicleAssignments |-> <<>>,
     unresolvableConflicts |-> <<>>, results |-> <<>>,
     assignment |-> NoAssignment, attempts |-> <<>>, pc |-> "start"]

\* the fleets are those of ambulances, the type every trip asks for
InitTwoRuns ==
    /\ trips \in TripLists
    /\ vehicles \in {f \in Fleets : \A i \in 1..Len(f) : f[i].type = "Ambulance"}
    /\ sortedTrips = FreshRun.sortedTrips
    /\ pos = FreshRun.pos
    /\ vehicleAssignments = FreshRun.vehicleAssignments
    /\ unresolvableConflicts = FreshRun.unresolvableConflicts
    /\ results = FreshRun.results
    /\ assignment = FreshRun.assignment
    /\ attempts = FreshRun.attempts
    /\ pc = FreshRun.pc
    /\ suspended = FreshRun
    /\ AppIdle
    /\ totals = <<>>
    /\ coordinates = <<>>
    /\ serverUrls = <<>>
    /\ response = NoResponse
    /\ ReturnIdle
    /\ SmartIdle

\* mutation: the map of working lists is one object that both runs use
\* instead of a local of each run
SwitchSharingLists ==
    /\ suspended.pc \notin {"done", "thrown"}
    /\ suspended' = RunLocals
    /\ sortedTrips' = suspended.sortedTrips
    /\ pos' = suspended.pos
    /\ unresolvableConflicts' = suspended.unresolvableConflicts
    /\ results' = suspended.results
    /\ assignment' = suspended.assignment
    /\ attempts' = suspended.attempts
    /\ pc' = suspended.pc
    /\ UNCHANGED <<trips, vehicles, vehicleAssignments, returnVars, smartVars,
                   appVars, totals, coordinates, serverUrls, response>>

\* the run that executes awaits or returns, and the other run goes on
Switch ==
    /\ suspended.pc \notin {"done", "thrown"}
    /\ suspended' = RunLocals
    /\ sortedTrips' = suspended.sortedTrips
    /\ pos' = suspended.pos
    /\ vehicleAssignments' = suspended.vehicleAssignments
    /\ unresolvableConflicts' = suspended.unresolvableConflicts
    /\ results' = suspended.results
    /\ assignment' = suspended.assignment
    /\ attempts' = suspended.attempts
    /\ pc' = suspended.pc
    /\ UNCHANGED <<trips, vehicles, returnVars, smartVars,
                   appVars, totals, coordinates, serverUrls, response>>

NextTwoRuns ==
    \/ BatchStart
    \/ Pass1Step
    \/ Pass2Step
    \/ BatchReturn
    \/ Switch

SpecTwoRuns == InitTwoRuns /\ [][NextTwoRuns]_vars

(***************************************************************************)
(* The first pass of optimizeMultipleTrips on trips of the two shapes the  *)
(* program holds: with pickupTime, as the scenarios of                     *)
(* runRealWorldSimulation, and with appointmentTime only, as the courses   *)
(* of App                                                                  *)
(***************************************************************************)
InitSort ==
    /\ trips \in UNION { { [i \in 1..n |->
                               [id |-> i, patient |-> "Mme Dupont",
                                pickup |-> "CHU Toulon", destination |-> "Hyères",
                                pickupTime |-> f[i].pickupTime, time |-> NoTime,
                                appointmentTime |-> f[i].appointmentTime,
                                vehicleType |-> "Ambulance",
                                priority |-> f[i].priority]] :
                           f \in [1..n -> [pickupTime : {<<8, 15>>, <<10, 30>>},
                                           appointmentTime : {NoTime},
                                           priority : {"urgent", "normal"}]
                                          \cup
                                          [pickupTime : {NoTime},
                                           appointmentTime : {<<6, 15>>, <<14, 0>>},
                                           priority : {"urgent", "normal"}]] }
                         : n \in 0..MaxTrips }
    /\ vehicles \in {f \in FreshFleets : \A i \in 1..Len(f) : f[i].type = "Ambulance"}
    /\ sortedTrips = <<>>
    /\ pos = 1
    /\ vehicleAssignments = <<>>
    /\ unresolvableConflicts = <<>>
    /\ results = <<>>
    /\ assignment = NoAssignment
    /\ attempts = <<>>
    /\ pc = "start"
    /\ ReturnIdle
    /\ SmartIdle
    /\ CallIdle

NextSort ==
    \/ BatchStart
    \/ Pass1Step

SpecSort == InitSort /\ [][NextSort]_vars

(***************************************************************************)
(* optimizeMultipleTrips on fleets whose vehicles carry up to two trips of *)
(* one patient, an urgent one at 11:00 and an ordinary one at 09:00        *)
(***************************************************************************)
\* the trip lists a vehicle may carry when the run starts
CarriedTrips(vehicleId) ==
    LET Carried(k, pickupTime, priority) ==
            [id |-> 100 + 10 * vehicleId + k, patient |-> "M. Martin",
             pickup |-> "CHU Toulon", destination |-> "Hyères",
             pickupTime |-> pickupTime, time |-> NoTime,
             vehicleType |-> "Ambulance", priority |-> priority]
    IN  {<<>>,
         <<Carried(1, <<11, 0>>, "urgent")>>,
         <<Carried(1, <<9, 0>>, "normal")>>,
         <<Carried(1, <<11, 0>>, "urgent"), Carried(2, <<9, 0>>, "normal")>>,
         <<Carried(1, <<9, 0>>, "normal"), Carried(2, <<11, 0>>, "urgent")>>}

InitReschedule ==
    /\ trips \in TripLists
    /\ vehicles \in UNION { { [i \in 1..n |->
                                  [MakeVehicle(i, [type |-> "Ambulance",
                                                   status |-> f[i].status], FALSE)
                                      EXCEPT !.trips = f[i].trips]] :
                              f \in { g \in [1..n -> [status : VehicleStatuses,
                                                      trips : UNION {CarriedTrips(v) :
                                                                       v \in 1..n}]] :
                                        \A i \in 1..n : g[i].trips \in CarriedTrips(i) } }
                            : n \in 1..MaxVehicles }
    /\ sortedTrips = <<>>
    /\ pos = 1
    /\ vehicleAssignments = <<>>
    /\ unresolvableConflicts = <<>>
    /\ results = <<>>
    /\ assignment = NoAssignment
    /\ attempts = <<>>
    /\ pc = "start"
    /\ ReturnIdle
    /\ SmartIdle
    /\ CallIdle

SpecReschedule == InitReschedule /\ [][Next]_vars

(***************************************************************************)
(* Routing client: getOSRMRoute and getOSRMMatrix                          *)
(*                                                                         *)
(* A coordinate is the name of a place; calculateHaversineDistance is its  *)
(* table of great-circle distances, in whole metres.                       *)
(***************************************************************************)
MaxCoordinates == 3

\* [6.1286, 43.1205], [5.9282, 43.1242] and [6.1350, 43.1180]
Places == {"Hyeres", "Toulon", "HyeresGare"}

CoordinateLists == UNION {[1..n -> Places] : n \in 0..MaxCoordinates}

calculateHaversineDistance(coord1, coord2) ==
    IF coord1 = coord2 THEN 0
    ELSE IF {coord1, coord2} = {"Hyeres", "Toulon"} THEN 16270
    ELSE IF {coord1, coord2} = {"Hyeres", "HyeresGare"} THEN 589
    ELSE 16799

\* (distance / 1000) * 60, whole part
estimatedDuration(distance) == (distance * 60) \div 1000

createFallbackMatrix(coords) ==
    [distances |-> [i \in 1..Len(coords) |-> [j \in 1..Len(coords) |->
                        calculateHaversineDistance(coords[i], coords[j])]],
     durations |-> [i \in 1..Len(coords) |-> [j \in 1..Len(coords) |->
                        estimatedDuration(
                            calculateHaversineDistance(coords[i], coords[j]))]]]

\* what the provider does with a request: it answers with a route or a table,
\* the connection fails or times out, the status is not 2xx, or the body
\* reports a code other than Ok
ProviderOutcomes == {"Ok", "NetworkError", "HttpError", "NotOk"}

RouterFunctions == {"getOSRMRoute", "getOSRMMatrix"}

\* the value a routing call returns
RouterValue(success, fallback, distance, duration, matrix, error) ==
    [state |-> "value", success |-> success, fallback |-> fallback,
     distance |-> distance, duration |-> duration, matrix |-> matrix,
     error |-> error]

NoMatrix == [distances |-> <<>>, durations |-> <<>>]

InitRouter ==
    /\ coordinates \in CoordinateLists
    /\ pc \in RouterFunctions
    /\ response = NoResponse
    /\ serverUrls = <<>>
    /\ suspended = NoRun
    /\ AppIdle
    /\ totals = <<>>
    /\ trips = <<>>
    /\ vehicles = <<>>
    /\ sortedTrips = <<>>
    /\ pos = 1
    /\ vehicleAssignments = <<>>
    /\ unresolvableConflicts = <<>>
    /\ results = <<>>
    /\ assignment = NoAssignment
    /\ attempts = <<>>
    /\ ReturnIdle
    /\ SmartIdle

\* the try block of getOSRMRoute (lines 2707-2771) and of getOSRMMatrix
\* (lines 2803-2861): the length test, the request, the tests of the answer
RouterTry ==
    /\ pc \in RouterFunctions
    /\ response.state = "none"
    /\ \E outcome \in ProviderOutcomes :
           /\ osrmUp' = (Len(coordinates) >= 2 /\ outcome = "Ok")
           /\ response' =
                  IF Len(coordinates) < 2
                  THEN [state |-> "caught", error |-> "At least 2 coordinates are required"]
                  ELSE IF outcome # "Ok"
                  THEN [state |-> "caught", error |-> outcome]
                  ELSE RouterValue(TRUE, FALSE, 0, 0, NoMatrix, "none")
    /\ UNCHANGED <<batchVars, pc, returnVars, vroomUp, serviceStatus, tier, caught,
                   smartResult, appVars, totals, coordinates, serverUrls, suspended>>

\* the catch block of getOSRMRoute, lines 2773-2792
RouteCatch ==
    /\ pc = "getOSRMRoute"
    /\ response.state = "caught"
    /\ response' =
           IF Len(coordinates) = 2
           THEN RouterValue(FALSE, TRUE,
                            calculateHaversineDistance(coordinates[1], coordinates[2]),
                            estimatedDuration(
                                calculateHaversineDistance(coordinates[1], coordinates[2])),
                            NoMatrix, response.error)
           ELSE [state |-> "thrown", error |-> response.error]
    /\ UNCHANGED <<batchVars, pc, returnVars, smartVars, appVars, totals, coordinates, serverUrls, suspended>>

\* the catch block of getOSRMMatrix, lines 2863-2877
MatrixCatch ==
    /\ pc = "getOSRMMatrix"
    /\ response.state = "caught"
    /\ response' = RouterValue(FALSE, TRUE, 0, 0, createFallbackMatrix(coordinates),
                               response.error)
    /\ UNCHANGED <<batchVars, pc, returnVars, smartVars, appVars, totals, coordinates, serverUrls, suspended>>

NextRouter ==
    \/ RouterTry
    \/ RouteCatch
    \/ MatrixCatch

SpecRouter == InitRouter /\ [][NextRouter]_vars

(***************************************************************************)
(* Solver client: solveVRP                                                 *)
(***************************************************************************)
\* VROOM_CONFIG.baseUrl and VROOM_CONFIG.fallbackUrls
SolverBaseUrl == "http://localhost:3000"

SolverFallbackUrls ==
    <<"http://solver.vroom-project.org", "https://router.project-osrm.org/vroom/v1">>

\* getVROOMServerUrls: the local server comes first when the solving probe
\* (testVROOMServerConnectivity) or the plain probe (isLocalVROOMRunning)
\* says it runs
getVROOMServerUrls(isLocalOptimizationWorking, basicCheck) ==
    IF isLocalOptimizationWorking \/ basicCheck
    THEN <<SolverBaseUrl>> \o SolverFallbackUrls
    ELSE SolverFallbackUrls

\* what a server does with the posted problem: a 2xx answer whose body is a
\* solution (summary, routes, unassigned), a 2xx answer whose body is
\* something else (an error object, a page of text), a 2xx answer whose body
\* is null, an answer with another status, or no answer in time
SolverAnswers == {"Solution", "NotASolution", "NullBody", "HttpError", "NoAnswer"}

\* axios.post resolves and the lines up to the return do not throw
PostReturns(answer) == answer \in {"Solution", "NotASolution"}

\* the value solveVRP returns from its catch block, lines 662-681
SolverFailure(error, tried) ==
    [state |-> "value", success |-> FALSE, serverUsed |-> "none",
     fallback |-> error # "HttpError", error |-> error, tried |-> tried]

InitSolver ==
    /\ pc = "solveVRP"
    /\ serverUrls = <<>>
    /\ response = NoResponse
    /\ coordinates = <<>>
    /\ suspended = NoRun
    /\ AppIdle
    /\ totals = <<>>
    /\ trips = <<>>
    /\ vehicles = <<>>
    /\ sortedTrips = <<>>
    /\ pos = 1
    /\ vehicleAssignments = <<>>
    /\ unresolvableConflicts = <<>>
    /\ results = <<>>
    /\ assignment = NoAssignment
    /\ attempts = <<>>
    /\ ReturnIdle
    /\ SmartIdle

\* lines 588-617: validateVRPData, then the list of servers to try
SolverStart ==
    /\ pc = "solveVRP"
    /\ \E valid, isLocalOptimizationWorking, basicCheck \in BOOLEAN :
           IF valid
           THEN /\ serverUrls' = getVROOMServerUrls(isLocalOptimizationWorking, basicCheck)
                /\ pc' = "post"
                /\ UNCHANGED response
           ELSE /\ response' = SolverFailure("At least one vehicle is required", 0)
                /\ pc' = "returned"
                /\ UNCHANGED serverUrls
    /\ UNCHANGED <<trips, vehicles, sortedTrips, pos, vehicleAssignments,
                   unresolvableConflicts, results, assignment, attempts,
                   returnVars, smartVars, appVars, totals, coordinates, suspended>>

\* lines 619-656: one iteration of the loop over the servers
SolverPost ==
    /\ pc = "post"
    /\ serverUrls # <<>>
    /\ \E answer \in SolverAnswers :
           /\ attempts' = Append(attempts, [serverUrl |-> Head(serverUrls),
                                            answer |-> answer])
           /\ vroomUp' = (answer \in {"Solution", "NotASolution", "NullBody"})
           /\ IF PostReturns(answer)
              THEN /\ response' = [state |-> "value", success |-> TRUE,
                                   serverUsed |-> Head(serverUrls), fallback |-> FALSE,
                                   error |-> "none", tried |-> Len(attempts) + 1]
                   /\ pc' = "returned"
                   /\ UNCHANGED serverUrls
              ELSE /\ serverUrls' = Tail(serverUrls)
                   /\ UNCHANGED <<response, pc>>
    /\ UNCHANGED <<trips, vehicles, sortedTrips, pos, vehicleAssignments,
                   unresolvableConflicts, results, assignment, returnVars, osrmUp,
                   serviceStatus, tier, caught, smartResult, appVars, totals, coordinates, suspended>>

\* lines 658-681: every server failed; the last error is thrown and caught
SolverGiveUp ==
    /\ pc = "post"
    /\ serverUrls = <<>>
    /\ response' = SolverFailure(
                       IF attempts = <<>> THEN "All VROOM servers are unavailable"
                       ELSE IF attempts[Len(attempts)].answer = "NullBody" THEN "TypeError"
                       ELSE attempts[Len(attempts)].answer,
                       Len(attempts))
    /\ pc' = "returned"
    /\ UNCHANGED <<trips, vehicles, sortedTrips, pos, vehicleAssignments,
                   unresolvableConflicts, results, assignment, attempts,
                   returnVars, smartVars, appVars, totals, coordinates, serverUrls, suspended>>

NextSolver ==
    \/ SolverStart
    \/ SolverPost
    \/ SolverGiveUp

SpecSolver == InitSolver /\ [][NextSolver]_vars

(***************************************************************************)
(* The application: handleOptimization and handleTimeWindowConfigChange    *)
(***************************************************************************)
\* the calls of handleOptimization one exploration makes
MaxRuns == 3

\* the time-window configurations the panel can hand over
MaxConfigs == 3

Configs == 1..MaxConfigs

\* how the awaited optimizeWithVRoomAdvanced settles: with a result or with
\* a rejection the catch block turns into an error object
Settlements == {"result", "error"}

\* handleOptimization up to its await: the flag is raised, the displayed
\* result is cleared and the optimizer is called with the configuration
handleOptimization(customConfig) ==
    /\ started < MaxRuns
    /\ isOptimizing' = TRUE
    /\ optimizationResult' = NoResult
    /\ started' = started + 1
    /\ \E config \in {IF customConfig = 0 THEN timeWindowConfig ELSE customConfig} :
          inFlight' = inFlight \cup {[run |-> started + 1, config |-> config]}

\* the optimize button, which is disabled while isOptimizing is set
ClickOptimize ==
    /\ pc = "app"
    /\ ~isOptimizing
    /\ handleOptimization(0)
    /\ UNCHANGED <<batchVars, pc, returnVars, smartVars, timeWindowConfig,
                   totals, coordinates, serverUrls, response, suspended>>

\* the Apply buttons of the configuration panel, which are never disabled
handleTimeWindowConfigChange ==
    /\ pc = "app"
    /\ \E newConfig \in Configs :
          /\ timeWindowConfig' = newConfig
          /\ handleOptimization(newConfig)
    /\ UNCHANGED <<batchVars, pc, returnVars, smartVars,
                   totals, coordinates, serverUrls, response, suspended>>

\* handleOptimization from its await on: the result or the error object is
\* displayed and the finally block lowers the flag
handleOptimizationSettles ==
    /\ pc = "app"
    /\ \E call \in inFlight, kind \in Settlements :
          /\ optimizationResult' = [run |-> call.run, config |-> call.config,
                                    kind |-> kind]
          /\ inFlight' = inFlight \ {call}
    /\ isOptimizing' = FALSE
    /\ UNCHANGED <<batchVars, pc, returnVars, smartVars, timeWindowConfig, started,
                   totals, coordinates, serverUrls, response, suspended>>

InitApp ==
    /\ pc = "app"
    /\ BatchIdle
    /\ ReturnIdle
    /\ SmartIdle
    /\ CallIdle

NextApp ==
    \/ ClickOptimize
    \/ handleTimeWindowConfigChange
    \/ handleOptimizationSettles

SpecApp == InitApp /\ [][NextApp]_vars

(***************************************************************************)
(* Properties of optimizeMultipleTrips (specification Spec)                *)
(***************************************************************************)
\* every trip of the input has its addresses, as the data model requires
WellFormedTrips == \A i \in 1..Len(trips) : ~GeocodeThrows(trips[i])

\* the entries of results that carry the trip with this id
EntriesOf(id) == {k \in 1..Len(results) : results[k].trip.id = id}

\* the record the second pass kept about the trip with this id
AttemptsOf(id) == {k \in 1..Len(attempts) : attempts[k].tripId = id}

\* the status of the vehicle with this id
StatusOf(vehicleId) == vehicles[vehicleId].status

C2_BadRecordNeverAborts ==
    (\E i \in 1..Len(trips) : GeocodeThrows(trips[i])) => pc # "thrown"

C4_NoMaintenanceVehicle ==
    /\ \A k \in 1..Len(results) :
           results[k].status = "assigned" => StatusOf(results[k].vehicle) # "maintenance"
    /\ pc \in {"pass1", "pass2", "summary", "done"} =>
           \A v \in 1..Len(vehicles) :
               StatusOf(v) = "maintenance" => vehicleAssignments[v] = vehicles[v].trips

(***************************************************************************)
(* Properties of findBestVehicleAssignment (specification SpecAssign)      *)
(***************************************************************************)
\* the vehicles of the list that are not in maintenance
Usable == {i \in 1..Len(vehicles) : vehicles[i].status # "maintenance"}

\* C5: findBestVehicleAssignment returns success:false exactly when the list
\* holds no vehicle out of maintenance, and otherwise returns success:true
\* with one of those vehicles as the recommended one, for any trip.
C5_FailsOnlyWithoutCandidate ==
    pc = "assigned" =>
        /\ ~assignment.success <=> Usable = {}
        /\ assignment.success =>
               \E i \in Usable : assignment.recommended.vehicle = vehicles[i]

\* a trip whose scoring fails is still given a vehicle, a busy one, although
\* another vehicle of the list is in maintenance
C5_Witness ==
    /\ pc = "assigned"
    /\ GeocodeThrows(trips[1])
    /\ assignment.success
    /\ \A i \in 1..Len(vehicles) : vehicles[i].status # "available"
    /\ \E i \in 1..Len(vehicles) : vehicles[i].status = "maintenance"

(***************************************************************************)
(* Properties of the return-trip generator (specification SpecReturns)     *)
(***************************************************************************)
\* the generated returns linked to the course with this id
ReturnsOf(returnList, id) ==
    {k \in 1..Len(returnList) : returnList[k].originalCourseId = id}

\* the trips the claim names: not a return, and a duration above 0 or a
\* return time other than 00:00
MustHaveReturn(course) ==
    /\ ~course.isReturnTrip
    /\ \/ course.duration > 0
       \/ course.returnTime # NoTime /\ course.returnTime # <<0, 0>>

\* C6: applied to the output of processCoursesWithReturns, which already
\* holds the returns generated for the list, generateReturnCourses produces
\* no additional return trip.
C6_NoDoubleReturns == pc = "again" => secondReturns = <<>>

\* C7: for a list without generated returns, generateReturnCourses produces
\* exactly one return, linked by originalCourseId, for each non-return
\* trip with a duration above 0 or a return time other than 00:00, and
\* none for any other trip.
C7_OneReturnPerEligibleTrip ==
    pc = "generated" =>
        /\ \A i \in 1..Len(courses) :
               Cardinality(ReturnsOf(returnCourses, courses[i].id)) =
                   IF MustHaveReturn(courses[i]) THEN 1 ELSE 0
        /\ \A k \in 1..Len(returnCourses) :
               /\ returnCourses[k].isReturnTrip
               /\ \E i \in 1..Len(courses) :
                      returnCourses[k].originalCourseId = courses[i].id

\* a list with a trip that gets its return, a return trip, and a trip with
\* duration 0 and return time 00:00 that gets none
C7_Witness ==
    /\ pc = "generated"
    /\ Len(returnCourses) = 1
    /\ \E i \in 1..Len(courses) :
           /\ ~courses[i].isReturnTrip
           /\ courses[i].duration = 0
           /\ courses[i].returnTime = <<0, 0>>
    /\ \E i \in 1..Len(courses) : MustHaveReturn(courses[i])

(***************************************************************************)
(* Properties of smartOptimize (specification SpecSmart)                   *)
(***************************************************************************)
SmartReturned == tier = <<>> /\ smartResult.state = "value"
SmartThrew == tier = <<>> /\ smartResult.state = "error"

\* smartOptimize has chosen its optimizer and is still in its try block
SmartChose(fn) ==
    /\ Len(tier) >= 2
    /\ tier[1] = "smartOptimize"
    /\ "smartOptimize" \notin caught
    /\ tier[2] = fn

SmartChosen == \E fn \in {"optimizeWithOSRMAndVROOM", "optimizeWithOSRMOnly",
                           "optimizeMultipleTrips"} : SmartChose(fn)

\* C8: whatever the Router and the Solver answer at the probe and at any
\* later request, and whether or not a module load fails on the way,
\* smartOptimize does not throw for well-formed trips and vehicles.
C8_NeverThrows == WellFormedTrips => ~SmartThrew

\* both providers probed available, the Router gone at the next request,
\* and a result returned all the same
C8_Witness ==
    /\ WellFormedTrips
    /\ Len(trips) > 0
    /\ SmartReturned
    /\ serviceStatus.osrm
    /\ serviceStatus.vroom
    /\ ~osrmUp

\* C9: every result smartOptimize returns has the fields results, summary
\* and algorithm.
C9_ResultShape ==
    SmartReturned => {"results", "summary", "algorithm"} \subseteq smartResult.fields

\* C10 as stated: both providers probed available selects the Solver path,
\* the Router alone the Router-only greedy, neither fallbackVRPSolver.
C10_NeitherSelectsFallbackVRPSolver ==
    SmartChosen =>
        /\ serviceStatus.osrm /\ serviceStatus.vroom
               => SmartChose("optimizeWithOSRMAndVROOM")
        /\ serviceStatus.osrm /\ ~serviceStatus.vroom
               => SmartChose("optimizeWithOSRMOnly")
        /\ ~serviceStatus.osrm /\ ~serviceStatus.vroom
               => SmartChose("fallbackVRPSolver")

\* C10 amended: both providers probed available selects the Solver path,
\* the Router alone the Router-only greedy, and a Router probed unavailable,
\* whatever the Solver, selects optimizeMultipleTrips.
C10_RouterDownSelectsBasic ==
    SmartChosen =>
        /\ serviceStatus.osrm /\ serviceStatus.vroom
               => SmartChose("optimizeWithOSRMAndVROOM")
        /\ serviceStatus.osrm /\ ~serviceStatus.vroom
               => SmartChose("optimizeWithOSRMOnly")
        /\ ~serviceStatus.osrm
               => SmartChose("optimizeMultipleTrips")

\* neither provider probed available and optimizeMultipleTrips running
C10_Witness ==
    /\ SmartChose("optimizeMultipleTrips")
    /\ ~serviceStatus.osrm
    /\ ~serviceStatus.vroom
    /\ pc = "pass1"

\* C11: a result the orchestrator returns from its Solver path while the
\* Router and the Solver answer every request holds the assignments of the
\* Solver, not those of the local fallback solver.
C11_SolverAssignments ==
    /\ SmartReturned
    /\ smartResult.algorithm = "OSRM + VROOM Integration"
    /\ osrmUp
    /\ vroomUp
    => ~smartResult.fallback

(***************************************************************************)
(* Properties of fallbackVRPSolver (specification SpecFallback)            *)
(***************************************************************************)
\* two trips of one route conflict under checkTimeConflicts
RouteConflict(route) ==
    \E i \in 1..Len(route), j \in 1..Len(route) :
        /\ i # j
        /\ checkTimeConflicts(route[i], <<route[j]>>, DefaultTimeWindowConfig)

\* C12: with the default configuration, no route that fallbackVRPSolver
\* returns holds two trips that conflict under checkTimeConflicts.
C12_NoConflictOnRoute ==
    pc = "solved" =>
        \A id \in 1..Len(vehicleAssignments) : ~RouteConflict(vehicleAssignments[id])

(***************************************************************************)
(* Properties of the routing client (specification SpecRouter)             *)
(***************************************************************************)
\* the call was given at least the two coordinates a request needs, the
\* request failed, and the call is over
RequestFailed ==
    /\ Len(coordinates) >= 2
    /\ ~osrmUp
    /\ response.state \in {"value", "thrown"}

\* C13: getOSRMRoute and getOSRMMatrix never propagate a failure of the
\* provider: for any list of coordinates, a call whose request failed returns
\* a distance and duration estimate marked as fallback and does not throw.
C13_FallbackInsteadOfThrow ==
    RequestFailed =>
        /\ response.state = "value"
        /\ response.fallback
        /\ ~response.success

(***************************************************************************)
(* Properties of the solver client (specification SpecSolver)              *)
(***************************************************************************)
\* the answers of the servers tried before the last one
EarlierAnswers == {attempts[k].answer : k \in 1..(Len(attempts) - 1)}

\* C14: solveVRP tries the server URLs in order; a server that errors, times
\* out or answers with a non-2xx or malformed response makes it try the next
\* URL; it reports success only for a well-formed solution, and it reports
\* failure, without throwing, only after every URL has failed.
C14_SuccessOnlyForSolution ==
    /\ response.state # "thrown"
    /\ pc = "returned" /\ response.success =>
           /\ attempts[Len(attempts)].answer = "Solution"
           /\ "Solution" \notin EarlierAnswers
    /\ pc = "returned" /\ ~response.success /\ response.tried > 0 =>
           /\ \A k \in 1..Len(attempts) : attempts[k].answer # "Solution"
           /\ Len(attempts) >= Len(SolverFallbackUrls)

(***************************************************************************)
(* Properties of calculateOptimizationScore (specification SpecAssign)     *)
(***************************************************************************)
\* what calculateOptimizationScore returns for the trip and the i-th vehicle
\* of the list, with the vehicle's own trips as the existing trips
ScoreOf(i) == calculateOptimizationScore(trips[1], vehicles[i], vehicles[i].trips)

\* C15: for every trip, vehicle and list of existing trips,
\* calculateOptimizationScore returns an integer score from 0 to 100.
C15_ScoreInRange ==
    /\ \A i \in 1..Len(vehicles) : ScoreOf(i).score \in 0..100
    /\ pc = "assigned" /\ assignment.success =>
           assignment.recommended.optimization.originalScore \in 0..100

\* the resolver scored a vehicle that already has a trip within 30 minutes
\* of the new one, and the score is neither of the two ends of the range
C15_Witness ==
    /\ pc = "assigned"
    /\ assignment.success
    /\ assignment.recommended.vehicle.trips # <<>>
    /\ assignment.recommended.optimization.details.timeSlotScore < 100
    /\ assignment.recommended.optimization.originalScore \in 1..99

\* the trip lacks an address, so that its geocoding fails
AddressMissing == trips[1].pickup = Undefined \/ trips[1].destination = Undefined

\* C16: calculateOptimizationScore never throws; when an internal step fails,
\* as the geocoding of a trip without pickup address does, it returns score 0
\* together with an error detail.
C16_FailureScoresZero ==
    /\ AddressMissing =>
           \A i \in 1..Len(vehicles) :
               ScoreOf(i).score = 0 /\ ScoreOf(i).details.error
    /\ pc = "assigned" /\ AddressMissing /\ assignment.success =>
           /\ assignment.recommended.optimization.originalScore = 0
           /\ assignment.recommended.optimization.details.error

\* the resolver scored vehicles for a trip without pickup address and got the
\* failure value for the recommended one
C16_Witness ==
    /\ pc = "assigned"
    /\ trips[1].pickup = Undefined
    /\ Len(vehicles) >= 2
    /\ assignment.success
    /\ assignment.recommended.optimization.details.error
    /\ assignment.recommended.optimization.originalScore = 0

(***************************************************************************)
(* Properties of checkTimeConflicts (specification SpecConflicts)          *)
(***************************************************************************)
\* C17: for any two trips A and B, checkTimeConflicts reports a conflict for
\* A against a list holding only B exactly when it reports one for B against
\* a list holding only A.
C17_ConflictSymmetric ==
    \A k, l \in 1..Len(results) :
        results[k].newTrip = results[l].existingTrip =>
            results[k].hasConflict = results[l].hasConflict

\* both calls were made for a return and an outbound trip whose intervals
\* are disjoint and closer than the buffer, and both report the conflict
C17_Witness ==
    /\ Len(results) = 2
    /\ results[1].hasConflict /\ results[2].hasConflict
    /\ trips[1].isReturnTrip /\ ~trips[2].isReturnTrip
    /\ getTimeBounds(trips[2]).endTime <= getTimeBounds(trips[1]).startTime

(***************************************************************************)
(* Properties of resolveConflicts (specification SpecResolve)              *)
(***************************************************************************)
\* the working lists as they were when resolveConflicts was last called
ListsAtLastCall ==
    [id \in 1..Len(vehicles) |-> attempts[Len(attempts)].arguments.vehicles[id].trips]

RunsOver ==
    /\ pc \in {"done", "thrown"}
    /\ suspended.pc \in {"done", "thrown"}

TimeOfDay(trip) ==
    IF trip.pickupTime # NoTime THEN convertTimeToMinutes(trip.pickupTime)
    ELSE IF trip.time # NoTime THEN convertTimeToMinutes(trip.time)
    ELSE convertTimeToMinutes(trip.appointmentTime)

\* urgent, high, normal, low: 4 down to 1
PriorityRank(trip) ==
    CASE trip.priority = "urgent" -> 4
      [] trip.priority = "high" -> 3
      [] trip.priority = "normal" -> 2
      [] trip.priority = "low" -> 1

\* C20: the first pass processes the trips in order of non-increasing
\* priority and, among trips of equal priority, in order of non-decreasing
\* time of day.
C20_Pass1Order ==
    pc # "start" =>
        \A k, l \in 1..Len(sortedTrips) :
            k < l =>
                /\ PriorityRank(sortedTrips[k]) >= PriorityRank(sortedTrips[l])
                /\ PriorityRank(sortedTrips[k]) = PriorityRank(sortedTrips[l]) =>
                       TimeOfDay(sortedTrips[k]) <= TimeOfDay(sortedTrips[l])

(***************************************************************************)
(* Properties of the ranking of findBestVehicleAssignment (SpecAssign)     *)
(***************************************************************************)
\* the pairwise rule: a goes first when its score is higher, except that
\* when the scores differ by less than 5 and exactly one of the two
\* vehicles is available, the available one goes first
RankedFirst(a, b) ==
    IF /\ Abs(a.optimization.score - b.optimization.score) < 5
       /\ (a.vehicle.status = "available") # (b.vehicle.status = "available")
    THEN a.vehicle.status = "available"
    ELSE a.optimization.score > b.optimization.score

\* C21: no candidate vehicle is ranked, under the pairwise rule, before the
\* vehicle that findBestVehicleAssignment recommends.
C21_RecommendedIsFirst ==
    pc = "assigned" /\ assignment.success =>
        \A i \in 1..Len(vehicles) :
            vehicles[i].status # "maintenance" =>
                ~RankedFirst(Evaluate(trips[1], vehicles[i]), assignment.recommended)

\* the recommended vehicle is available and was listed after a busy one
\* whose score is higher, by less than 5
C21_Witness ==
    /\ pc = "assigned"
    /\ assignment.success
    /\ assignment.recommended.isAvailable
    /\ \E i \in 1..Len(vehicles) :
           /\ vehicles[i].status = "busy"
           /\ i < assignment.recommended.vehicle.id
           /\ Evaluate(trips[1], vehicles[i]).optimization.score
                  > assignment.recommended.optimization.score

(***************************************************************************)
(* Properties of the resolutions applied by the second pass                *)
(* (specification SpecReschedule)                                          *)
(***************************************************************************)
\* every urgent trip of a working list is in the same list, with the same
\* times, after the step
UrgentTripsKept ==
    pc \in {"pass1", "pass2"} =>
        \A id \in DOMAIN vehicleAssignments :
            \A i \in 1..Len(vehicleAssignments[id]) :
                vehicleAssignments[id][i].priority = "urgent" =>
                    \E j \in 1..Len(vehicleAssignments'[id]) :
                        /\ vehicleAssignments'[id][j].id = vehicleAssignments[id][i].id
                        /\ vehicleAssignments'[id][j].pickupTime
                               = vehicleAssignments[id][i].pickupTime
                        /\ vehicleAssignments'[id][j].time
                               = vehicleAssignments[id][i].time

\* C22: no resolution applied by optimizeMultipleTrips changes the time of
\* an urgent trip already on a vehicle: the trip moved by a
\* reschedule_existing resolution is the non-urgent trip of the option.
C22_UrgentTripsKeepTheirTime == [][UrgentTripsKept]_vars

(***************************************************************************)
(* Properties of a run on a fleet that is entirely in maintenance          *)
(* (specification Spec)                                                    *)
(***************************************************************************)
AllInMaintenance == \A i \in 1..Len(vehicles) : vehicles[i].status = "maintenance"

\* C23: when every vehicle has status maintenance, optimizeMultipleTrips does
\* not throw and records every trip as unassigned.
C23_MaintenanceFleetLeavesAllUnassigned ==
    AllInMaintenance =>
        /\ pc # "thrown"
        /\ \A k \in 1..Len(results) : results[k].status = "unassigned"
        /\ pc = "done" => \A i \in 1..Len(trips) : Len(EntriesOf(trips[i].id)) = 1

(***************************************************************************)
(* Two trips at 09:00 for one available vehicle (specification Spec)       *)
(***************************************************************************)
\* exactly two complete trips at 09:00 with the same required vehicle type,
\* and a single available vehicle of that type, which carries no trip
TwoTripsOneVehicle ==
    /\ Len(trips) = 2
    /\ WellFormedTrips
    /\ \A i \in 1..2 : TripTime(trips[i]) = <<9, 0>>
    /\ trips[1].vehicleType = trips[2].vehicleType
    /\ Len(vehicles) = 1
    /\ vehicles[1].status = "available"
    /\ vehicles[1].type = trips[1].vehicleType
    /\ vehicles[1].trips = <<>>

\* the entries pushed by the first pass
AssignedInPass1 ==
    {k \in 1..Len(results) :
        results[k].status = "assigned" /\ results[k].resolutionApplied = "none"}

\* C24: given exactly two trips at 09:00 with the same required vehicle type
\* and a single available vehicle of that type, the run assigns one trip in
\* the first pass, defers the other, obtains a non-empty list of resolution
\* strategies for it in the second pass, and returns exactly two results.
C24_OneAssignedOneResolved ==
    TwoTripsOneVehicle =>
        /\ pc # "thrown"
        /\ pc \in {"pass2", "summary", "done"} =>
               /\ Cardinality(AssignedInPass1) = 1
               /\ Len(unresolvableConflicts) = 1
               /\ unresolvableConflicts[1].id # results[1].trip.id
        /\ pc \in {"summary", "done"} =>
               /\ Len(attempts) = 1
               /\ attempts[1].tripId = unresolvableConflicts[1].id
               /\ attempts[1].generated # <<>>
               /\ Len(results) = 2

\* the run is over and the deferred trip was placed by moving its time
C24_Witness ==
    /\ TwoTripsOneVehicle
    /\ pc = "done"
    /\ results[2].status = "assigned"
    /\ results[2].resolutionApplied = "time_adjustment"

(***************************************************************************)
(* Properties of the ids of generated returns (specification SpecReturnIds) *)
(***************************************************************************)
\* the ids of the courses of a list
IdsOf(courseList) == {courseList[i].id : i \in 1..Len(courseList)}

\* the ids of the generated list are consecutive from one above the largest
\* id of the input list
ConsecutiveAbove(inputList, generated) ==
    \A k \in 1..Len(generated) :
        /\ \A n \in IdsOf(inputList) : n < generated[1].id
        /\ generated[1].id - 1 \in IdsOf(inputList)
        /\ generated[k].id = generated[1].id + (k - 1)

\* C25: the ids given to generated returns are consecutive integers starting
\* one above the largest id of the input list, so no generated id equals the
\* id of an input course or of another generated return.
C25_FreshConsecutiveIds ==
    /\ ConsecutiveAbove(courses, returnCourses)
    /\ IdsOf(courses) \cap IdsOf(returnCourses) = {}
    /\ Cardinality(IdsOf(returnCourses)) = Len(returnCourses)
    /\ Cardinality(IdsOf(expanded)) = Len(expanded)
    /\ ConsecutiveAbove(expanded, secondReturns)
    /\ IdsOf(expanded) \cap IdsOf(secondReturns) = {}

\* two returns were generated for a list whose largest id is not the last
C25_Witness ==
    /\ pc = "generated"
    /\ Len(returnCourses) = 2
    /\ courses[1].id > courses[2].id
    /\ courses[1].id - courses[2].id > 1

(***************************************************************************)
(* Properties of the fields of a generated return (specification           *)
(* SpecReturns)                                                            *)
(***************************************************************************)
\* the course of the input list a generated return was made from
SourceOf(return) ==
    CHOOSE i \in 1..Len(courses) : courses[i].id = return.originalCourseId

\* minutes since midnight of a time written as hours and minutes
MinutesOf(time) == 60 * time[1] + time[2]

\* C26: each generated return has the source's destination as pickup and the
\* source's pickup as destination, coordinates swapped likewise, isReturnTrip
\* true, a maximum wait of 240 minutes, an exit time equal to the source's
\* return time if present and otherwise its appointment time plus duration,
\* and an earliest pickup time equal to the exit time plus 15 minutes.
C26_ReturnFields ==
    \A k \in 1..Len(returnCourses) :
        LET return == returnCourses[k]
            source == courses[SourceOf(return)]
        IN  /\ return.pickup = source.destination
            /\ return.destination = source.pickup
            /\ return.coordinates = source.destinationCoords
            /\ return.destinationCoords = source.coordinates
            /\ return.isReturnTrip
            /\ return.maxWaitTime = 240
            /\ IF source.returnTime # NoTime
               THEN return.exitTime = source.returnTime
               ELSE /\ MinutesOf(return.exitTime)
                           = MinutesOf(source.appointmentTime) + source.duration
                    /\ return.exitTime[2] \in 0..59
            /\ MinutesOf(return.earliestPickupTime) = MinutesOf(return.exitTime) + 15
            /\ return.earliestPickupTime[2] \in 0..59

\* two returns were generated, one from a return time and one from an
\* appointment time and a duration, the latter with a carry into the hour
C26_Witness ==
    /\ pc = "generated"
    /\ Len(returnCourses) = 2
    /\ courses[1].returnTime = <<11, 30>>
    /\ returnCourses[1].earliestPickupTime = <<11, 45>>
    /\ courses[2].returnTime = NoTime
    /\ returnCourses[2].exitTime = <<9, 45>>
    /\ returnCourses[2].earliestPickupTime = <<10, 0>>

(***************************************************************************)
(* Properties of the labels of the result of smartOptimize (SpecSmart)     *)
(***************************************************************************)
\* the assignments of the result are the Solver's: only the branch of
\* optimizeWithVRoomAdvanced that converts a solution adds vroomResult
ComputedBySolver == "vroomResult" \in smartResult.fields

\* the algorithm labels that name the Solver
SolverLabels == {"VROOM VRP Solver", "OSRM + VROOM Integration"}

\* C27: whenever the assignments of the result of smartOptimize were computed
\* by a local fallback because a provider was unavailable or failed, the
\* result carries fallback: true and its algorithm label does not name the
\* Solver.
C27_FallbackIsLabelled ==
    SmartReturned /\ ~ComputedBySolver =>
        /\ smartResult.fallback
        /\ smartResult.algorithm \notin SolverLabels

(***************************************************************************)
(* Properties of the vehicle types chosen by fallbackVRPSolver             *)
(* (specification SpecFallbackTypes)                                       *)
(***************************************************************************)
\* the pairs of required type and vehicle type whose compatibility is 50 or
\* more in the table of getVehicleTypeCompatibility
CompatibleTypes ==
    {<<"Ambulance", "Ambulance">>,
     <<"VSL", "Ambulance">>, <<"VSL", "VSL">>, <<"VSL", "Taxi">>,
     <<"Taxi", "Ambulance">>, <<"Taxi", "VSL">>, <<"Taxi", "Taxi">>}

\* C28: fallbackVRPSolver never assigns a trip to a vehicle whose type
\* compatibility with the trip's required type is below 50; in particular a
\* trip requiring an Ambulance is only ever assigned to an Ambulance.
C28_CompatibleVehicleOnly ==
    /\ \A k \in 1..Len(results) :
           results[k].status = "assigned" =>
               /\ <<results[k].trip.vehicleType, vehicles[results[k].vehicle].type>>
                      \in CompatibleTypes
               /\ results[k].trip.vehicleType = "Ambulance" =>
                      vehicles[results[k].vehicle].type = "Ambulance"
    /\ \A id \in DOMAIN vehicleAssignments :
           \A i \in 1..Len(vehicleAssignments[id]) :
               /\ <<vehicleAssignments[id][i].vehicleType, vehicles[id].type>>
                      \in CompatibleTypes
               /\ vehicleAssignments[id][i].vehicleType = "Ambulance" =>
                      vehicles[id].type = "Ambulance"

\* the run is over; a trip requiring an Ambulance is on the Ambulance listed
\* second, after a VSL in service that was passed over
C28_Witness ==
    /\ pc = "solved"
    /\ Len(vehicles) = 2
    /\ vehicles[1].type = "VSL" /\ vehicles[1].status = "available"
    /\ vehicles[2].type = "Ambulance"
    /\ \E k \in 1..Len(results) :
           /\ results[k].trip.vehicleType = "Ambulance"
           /\ results[k].status = "assigned"
           /\ results[k].vehicle = 2

(***************************************************************************)
(* Visibility of earlier placements within one run                         *)
(* (specification Spec)                                                    *)
(***************************************************************************)
\* the vehicles, each carrying its working list as it stands in this state
WorkingFleet ==
    Listed([i \in 1..Len(vehicles) |->
               [vehicles[i] EXCEPT !.trips = vehicleAssignments[vehicles[i].id]]])

\* every trip reported assigned so far is in the working list of its vehicle
PlacedTripsListed ==
    \A k \in 1..Len(results) :
        results[k].status = "assigned" =>
            \E i \in 1..Len(vehicleAssignments[results[k].vehicle]) :
                vehicleAssignments[results[k].vehicle][i].id = results[k].trip.id

\* a step of either pass scores its trip against the working lists of the
\* state it starts from, and leaves every placed trip in them
ScoredAgainstWorkingLists ==
    /\ pc = "pass1" =>
           assignment' = findBestVehicleAssignment(sortedTrips[pos], WorkingFleet)
    /\ (pc = "pass2" /\ pc' # "thrown") =>
           LET strategies == resolveConflicts(unresolvableConflicts[pos], WorkingFleet, trips)
               attempt == attempts'[Len(attempts')]
           IN  /\ Len(attempts') = Len(attempts) + 1
               /\ attempt.tripId = unresolvableConflicts[pos].id
               /\ attempt.generated = [i \in 1..Len(strategies) |-> strategies[i].type]
               /\ Len(strategies) > 0 =>
                      vehicleAssignments' =
                          applyResolutionStrategy(unresolvableConflicts[pos],
                              recommendedStrategy(strategies),
                              WorkingFleet, vehicleAssignments).va
    /\ pc \in {"pass1", "pass2"} =>
           /\ PlacedTripsListed'
           /\ \A id \in DOMAIN vehicleAssignments :
                  \A i \in 1..Len(vehicleAssignments[id]) :
                      \E j \in 1..Len(vehicleAssignments'[id]) :
                          vehicleAssignments'[id][j].id = vehicleAssignments[id][i].id

\* C29: within one run of optimizeMultipleTrips every assignment or
\* rescheduling applied for a trip is visible when a later trip is scored:
\* each trip of Pass 1 and Pass 2 is evaluated against working lists that
\* contain all trips placed earlier in the run.
C29_EarlierPlacementsVisible == [][ScoredAgainstWorkingLists]_vars

\* a trip was placed by rescheduling a carried trip, and a later trip of the
\* second pass was placed on the same vehicle, whose working list holds both
C29_Witness ==
    /\ pc \in {"pass2", "summary", "returned"}
    /\ \E k \in 1..Len(results) : \E j \in (k + 1)..Len(results) :
           /\ results[k].status = "assigned"
           /\ results[k].resolutionApplied = "reschedule_existing"
           /\ results[j].status = "assigned"
           /\ results[j].resolutionApplied # "none"
           /\ results[j].vehicle = results[k].vehicle
    /\ PlacedTripsListed

(***************************************************************************)
(* Properties of the results list of smartOptimize (specification          *)
(* SpecTiers)                                                              *)
(***************************************************************************)
\* the entries of the results list whose trip is the k-th input trip
EntriesOfInput(k) == {e \in 1..Len(results) : results[e].trip = trips[k]}

\* C30: for every combination of provider availability, the results list
\* returned by smartOptimize contains exactly one entry for each input trip.
C30_OneEntryPerInputTrip ==
    SmartReturned =>
        /\ Len(results) = Len(trips)
        /\ \A k \in 1..Len(trips) : Cardinality(EntriesOfInput(k)) = 1

\* smartOptimize has returned a list with an assigned and an unassigned
\* entry, computed by an optimizer other than optimizeMultipleTrips
C30_Witness ==
    /\ SmartReturned
    /\ smartResult.algorithm \in {"OSRM-Enhanced Greedy", "OSRM + VROOM Integration"}
    /\ Len(trips) >= 2
    /\ \E e \in 1..Len(results) : results[e].status = "assigned"
    /\ \E e \in 1..Len(results) : results[e].status = "unassigned"

(***************************************************************************)
(* Spacing of the trips on a working list at the end of a run              *)
(* (specification Spec)                                                    *)
(***************************************************************************)
\* the trip was placed by this run: it has an entry reported assigned
PlacedInRun(trip) ==
    \E k \in 1..Len(results) :
        results[k].status = "assigned" /\ results[k].trip.id = trip.id

\* two trips of a list are less than 30 minutes apart
TooClose(a, b) ==
    Abs(convertTimeToMinutes(TripTime(a)) - convertTimeToMinutes(TripTime(b))) < 30

\* C31: when optimizeMultipleTrips finishes, no vehicle's working list
\* contains a trip placed during the run that is less than 30 minutes away
\* from another trip on the same list.
C31_PlacedTripsSpaced ==
    pc = "done" =>
        \A id \in DOMAIN vehicleAssignments :
            \A i, j \in 1..Len(vehicleAssignments[id]) :
                (i # j /\ PlacedInRun(vehicleAssignments[id][i])) =>
                    ~TooClose(vehicleAssignments[id][i], vehicleAssignments[id][j])

(***************************************************************************)
(* Range of the score findBestVehicleAssignment reports                    *)
(* (specification SpecAssign)                                              *)
(***************************************************************************)
\* the scores of the evaluations: of the recommended vehicle and of every
\* other candidate, which are the alternatives
ReportedScores ==
    {assignment.recommended.optimization.score}
        \cup {Evaluate(trips[1], vehicles[i]).optimization.score :
                 i \in {k \in 1..Len(vehicles) : vehicles[k].status # "maintenance"}}

\* C32: the score reported by findBestVehicleAssignment for the recommended
\* vehicle and for each alternative (the enhanced score) is an integer
\* between 0 and 100.
C32_EnhancedScoreInRange ==
    pc = "assigned" /\ assignment.success => ReportedScores \subseteq 0..100

(***************************************************************************)
(* Conflicts between trips timed by their appointment                      *)
(* (specification SpecSort)                                                *)
(***************************************************************************)
\* the time of the trip is carried only in appointmentTime
TimedByAppointment(trip) ==
    trip.appointmentTime # NoTime /\ trip.pickupTime = NoTime /\ trip.time = NoTime

\* the trips of a list less than 30 minutes from the trip, at their own times
NearByAppointment(trip, existingTrips) ==
    SelectSeq(existingTrips,
              LAMBDA e : Abs(convertTimeToMinutes(trip.appointmentTime)
                             - convertTimeToMinutes(e.appointmentTime)) < 30)

\* a step of the first pass on a trip timed by its appointment, scored on a
\* vehicle whose trips are all timed by their appointment: the conflicts of
\* the evaluation are the trips less than 30 minutes away, and the time-slot
\* score counts the same trips
ConflictsAtOwnTimes ==
    (/\ pc = "pass1"
     /\ assignment'.success
     /\ TimedByAppointment(sortedTrips[pos])
     /\ \A i \in 1..Len(assignment'.recommended.vehicle.trips) :
            TimedByAppointment(assignment'.recommended.vehicle.trips[i]))
        => LET near == NearByAppointment(sortedTrips[pos],
                                         assignment'.recommended.vehicle.trips)
               details == assignment'.recommended.optimization.details
           IN  /\ Len(details.conflicts) = Len(near)
               /\ \A i \in 1..Len(near) : details.conflicts[i].conflictingTrip = near[i]
               /\ details.timeSlotScore =
                      (IF Len(near) = 0 THEN 100 ELSE IF Len(near) = 1 THEN 60
                       ELSE IF Len(near) = 2 THEN 30 ELSE 10)

\* C33: conflict detection and time-slot scoring in the batch optimizer
\* compare trips at their own scheduled times: for trips whose time is
\* carried only in appointmentTime, two trips at least 30 minutes apart are
\* not reported as conflicting and two trips less than 30 minutes apart are.
C33_ConflictsAtScheduledTimes == [][ConflictsAtOwnTimes]_vars

(***************************************************************************)
(* Exit time of the generated return trips (specification SpecReturns)     *)
(***************************************************************************)
\* "HH:MM" names a time of day
ValidTimeOfDay(time) ==
    /\ time # NoTime
    /\ time[1] \in 0..23
    /\ time[2] \in 0..59

\* C34: for every generated return trip, the exit time is a valid time of
\* day that is not earlier than the source trip's appointment time.
C34_ExitTimeAfterAppointment ==
    pc = "generated" =>
        \A k \in 1..Len(returnCourses) :
            /\ ValidTimeOfDay(returnCourses[k].exitTime)
            /\ MinutesOf(returnCourses[k].exitTime)
                   >= MinutesOf(courses[SourceOf(returnCourses[k])].appointmentTime)

(***************************************************************************)
(* Properties of the application (specification SpecApp)                   *)
(***************************************************************************)
\* C35: isOptimizing is true for as long as any run started by
\* handleOptimization is still in flight, and is false only when no run is
\* in flight
C35_OptimizingWhileInFlight == (inFlight # {}) => isOptimizing

\* the run that was started last
LatestRun == started

\* C36: once every run in flight has completed, the displayed
\* optimizationResult is the result of the most recently started run, in
\* whatever order the runs finished
C36_LatestRunDisplayed ==
    (started > 0 /\ inFlight = {}) => optimizationResult.run = LatestRun

(***************************************************************************)
(* Properties of the distances fallbackVRPSolver reports                   *)
(***************************************************************************)
\* C37: in every result of fallbackVRPSolver, summary.totalDistance,
\* summary.totalDuration and the totalDistance of each assigned trip are
\* finite numbers
C37_FiniteDistances ==
    pc = "solved" =>
        /\ isFinite(summary.totalDistance)
        /\ isFinite(summary.totalDuration)
        /\ \A k \in 1..Len(results) :
               results[k].status = "assigned" => isFinite(results[k].totalDistance)

(***************************************************************************)
(* Properties of the Router-only greedy tier (specification SpecTiers)     *)
(***************************************************************************)
\* C38: optimizeWithOSRMOnly never assigns to one vehicle two trips whose
\* times are less than 30 minutes apart
C38_OSRMOnlyTripsSpaced ==
    (SmartReturned /\ smartResult.algorithm = "OSRM-Enhanced Greedy") =>
        \A j, k \in 1..Len(results) :
            (/\ j # k
             /\ results[j].status = "assigned"
             /\ results[k].status = "assigned"
             /\ results[j].vehicle = results[k].vehicle)
                => ~TooClose(results[j].trip, results[k].trip)

(***************************************************************************)
(* Properties of the 2-opt pass of fallbackVRPSolver                       *)
(* (specification SpecFallback)                                            *)
(***************************************************************************)
\* how many times the trip is on the route
Occurrences(route, trip) == Cardinality({k \in 1..Len(route) : route[k] = trip})

\* the two routes hold the same trips, each as many times
SameTrips(a, b) ==
    /\ Len(a) = Len(b)
    /\ \A k \in 1..Len(a) : Occurrences(a, a[k]) = Occurrences(b, a[k])

\* a <= b on two JavaScript numbers: false as soon as one of them is NaN
NotGreater(a, b) == a.kind = "number" /\ b.kind = "number" /\ a.value <= b.value

\* the step of the 2-opt pass
TwoOptPass == pc = "greedy" /\ pc' = "improved"

TwoOptKeepsTripsAndDistance ==
    TwoOptPass =>
        \A id \in 1..Len(vehicles) :
            /\ SameTrips(vehicleAssignments'[id], vehicleAssignments[id])
            /\ \/ totals'[id] = totals[id]
               \/ NotGreater(totals'[id].totalDistance, totals[id].totalDistance)

\* C39: the 2-opt pass of fallbackVRPSolver replaces a vehicle's route only
\* by a permutation of the same trips, and the total distance recorded for
\* the vehicle after the pass is not greater than the total recorded before
C39_TwoOptPermutesAndShortens == [][TwoOptKeepsTripsAndDistance]_vars

====
